---- MODULE Spec2Model ----
(***************************************************************************)
(* Multi-algorithm background remover.                                     *)
(*                                                                         *)
(* The state machines of this module:                                      *)
(*   Spec       the BackgroundRemover component's processing run:          *)
(*              handleProcessImage -> loadImageFromUrl ->                  *)
(*              processImageWithAllAlgorithms -> the seven variants,       *)
(*              interleaved with the user's clicks;                        *)
(*   SpecIcon   the mask stage of removeIconBackground: sampling the       *)
(*              background colour and the four corner-seeded floodFill     *)
(*              runs, one loop iteration per step;                         *)
(*   SpecFill   one floodFill call;                                        *)
(*   SpecShape  the pixel stage of the icon, inkscape and gimp variants;   *)
(*   SpecSmooth the icon variant on images with neighbouring interior      *)
(*              pixels;                                                    *)
(*   SpecMask   the mask loops of the segmentation variants;               *)
(*   SpecBlur   gaussianBlur in binary64;                                  *)
(*   SpecSize   the working canvas each variant sets up;                   *)
(*   SpecRun    the pixels of one run over all seven variants.             *)
(***************************************************************************)
EXTENDS Integers, Sequences, FiniteSets

VARIABLES
    \* ---- BackgroundRemover component state (useState hooks)
    selectedImageUrl,   \* selectedImageUrl is non-empty (an image is selected)
    originalImage,      \* originalImage is non-null
    processedResults,   \* sequence of algorithm ids, in list order
    isProcessing,
    progress,
    toast,              \* the last toast handleProcessImage raised: [title, n]
    \* ---- the run of handleProcessImage in flight
    hpc,                \* position of handleProcessImage
    runs,               \* processing runs started so far
    proxy,              \* loadImageFromUrl: index into corsProxies, 4 = direct load
    lstage,             \* loadImageFromUrl: what the call is suspended on
    loadResult,         \* how the loadImageFromUrl promise settled
    \* ---- processImageWithAllAlgorithms
    opc,                \* position of the orchestrator
    idx,                \* loop index into algorithms (1-based)
    results,            \* the local results array
    vstate,             \* per variant: its stage, or how its promise settled
    segResult,          \* what the segmentation pipeline returned to the current variant
    invoked,            \* variants removeBackgroundWithAlgorithm was called for in this run
    \* ---- removeIconBackground mask stage
    img,                \* imageData: [w, h, px] with px a sequence of colours, row-major
    tolerance,          \* opts.tolerance
    backgroundColor,    \* result of sampleBackgroundColor
    ipc,                \* position of removeIconBackground
    corner,             \* index into corners (1-based)
    stack,              \* floodFill: work stack of <<x, y>>
    filled,             \* floodFill: filled[] as a sequence of booleans
    mask,               \* removeIconBackground: mask[] as a sequence of booleans
    \* ---- the pixel stage of one variant, run on its own
    variant,            \* the variant that runs
    imageData,          \* decoded input: [w, h, px, a], a the alpha bytes
    opts,               \* the variant's options
    maskData,           \* result[0].mask.data of a segmentation variant
    spc,                \* position of the variant
    bgColor,            \* the variant's backgroundColor
    bgMask,             \* the variant's mask[]
    edges,              \* the variant's edges[]
    shaped,             \* alpha bytes of outputData before smoothing or feathering
    alphaMask,          \* gimp: alphaMask[] once feathered
    outputData,         \* the output buffer: [px, a]
    \* ---- gaussianBlur called on its own, and the engine it runs on
    mathExp,            \* Math.exp of the engine: its error in units in the last place
    bpc,                \* position of the gaussianBlur call
    blurArgs,           \* its arguments: [data, width, height, radius]
    kernel,             \* gaussianBlur: kernel[] once normalised
    temp,               \* gaussianBlur: temp[] after the horizontal pass
    result,             \* gaussianBlur: result[] after the vertical pass
    \* ---- the working canvas of one variant
    zpc,                \* position of the variant's canvas set-up
    algorithm,          \* the variant
    natural,            \* imageElement.naturalWidth, naturalHeight: [w, h]
    canvas,             \* canvas.width, canvas.height: [w, h]
    \* ---- the pixels of one run of processImageWithAllAlgorithms
    imageElement,       \* the decoded image every variant is handed
    runAt,              \* loop index into algorithms (1-based)
    blobs               \* per variant: the pixels of the blob it resolved with

uiVars == <<selectedImageUrl, originalImage, processedResults,
            isProcessing, progress, toast, hpc, runs, proxy, lstage, loadResult,
            opc, idx, results, vstate, segResult, invoked>>

iconVars == <<img, tolerance, backgroundColor, ipc, corner, stack, filled, mask>>

shapeVars == <<variant, imageData, opts, maskData, spc, bgColor, bgMask, edges,
               shaped, alphaMask, outputData>>

blurVars == <<mathExp, bpc, blurArgs, kernel, temp, result>>

sizeVars == <<zpc, algorithm, natural, canvas>>

runVars == <<imageElement, runAt, blobs>>

vars == <<uiVars, iconVars, shapeVars, blurVars, sizeVars, runVars>>

\* ------------------------------------------------------------------ bounds

\* Processing runs a behaviour may start.
MaxRuns == 2

\* Pixels of the working canvas in a processing run (width * height).
CanvasPixels == 2

\* Pixels of the largest image the icon variant is run on (width * height).
MaxPixels == 5

\* Mask values are the multiples of 1 / MaskSteps in [0, 1].
MaskSteps == 100

\* ------------------------------------------------------------ the variants

\* backgroundRemoval.ts:155
algorithms == <<"icon", "ai", "rembg", "modnet", "gimp", "inkscape", "inspyrenet">>

Algorithms == {algorithms[i] : i \in 1..Len(algorithms)}

\* The variants that call the segmentation pipeline.
MLAlgorithms == {"ai", "rembg", "modnet", "inspyrenet"}

Settled == {"resolved", "rejected"}

\* Where a variant first suspends. An ML variant awaits pipeline(...). A local
\* variant (icon, gimp, inkscape) draws its canvas and computes the alpha channel
\* synchronously: it either throws there (ok = FALSE: no 2d context, the canvas
\* cannot be read) or suspends on canvas.toBlob.
FirstStage(a, ok) ==
    IF a \in MLAlgorithms THEN "model"
    ELSE IF ok THEN "encode" ELSE "rejected"

\* The suspension that follows s when s completes: once the model is loaded the
\* variant draws its canvas and awaits the segmenter; once toBlob hands over a
\* blob the variant's promise resolves.
NextStage(s) ==
    CASE s = "model"  -> "segment"
      [] s = "encode" -> "resolved"

\* What a segmentation pipeline may hand back, by the fields the variants read:
\* result, Array.isArray(result), result.length, result[0].mask,
\* result[0].mask.data.length.
SegResults ==
    { [isNull |-> TRUE,  isArray |-> FALSE, length |-> 0, hasMask |-> FALSE, dataLen |-> 0],
      [isNull |-> FALSE, isArray |-> FALSE, length |-> 0, hasMask |-> FALSE, dataLen |-> 0],
      [isNull |-> FALSE, isArray |-> TRUE,  length |-> 0, hasMask |-> FALSE, dataLen |-> 0],
      [isNull |-> FALSE, isArray |-> TRUE,  length |-> 1, hasMask |-> FALSE, dataLen |-> 0] }
    \cup
    { [isNull |-> FALSE, isArray |-> TRUE, length |-> 1, hasMask |-> TRUE, dataLen |-> n] :
        n \in 0..(CanvasPixels + 1) }

NoSegResult == [isNull |-> TRUE, isArray |-> FALSE, length |-> 0, hasMask |-> FALSE, dataLen |-> 0]

\* if (!result || !Array.isArray(result) || result.length === 0 || !result[0].mask) throw
InvalidSegmentation(r) ==
    r.isNull \/ ~r.isArray \/ r.length = 0 \/ ~r.hasMask

\* ---------------------------------------------------------- the orchestrator

\* Mutant: results.unshift(...) instead of results.push(...).
PushResultFront(rs, a) == <<a>> \o rs

\* results.push({ algorithm, result, blob })
PushResult(rs, a) == Append(rs, a)

\* Mutant: the catch block leaves the loop.
AfterCatchBreak == "break"

\* Mutant: the catch block rethrows.
AfterCatchRethrow == "rethrow"

\* The catch block of the loop body: log and fall through to the next variant.
AfterCatch == "continue"

\* Mutant: the variant's promise is not awaited, the loop moves on at once.
AfterStartNoAwait(i) == [opc |-> "loop", idx |-> i + 1]

\* "const blob = await removeBackgroundWithAlgorithm(...)": the loop is suspended
\* on the variant's promise and the index stays where it is.
AfterStart(i) == [opc |-> "await", idx |-> i]

InFlight == {a \in Algorithms : vstate[a] \notin (Settled \cup {"notStarted"})}

Toast(title, n) == [title |-> title, n |-> n]

\* ------------------------------------------------------------------- Init

InitUI ==
    /\ selectedImageUrl = FALSE
    /\ originalImage = FALSE
    /\ processedResults = <<>>
    /\ isProcessing = FALSE
    /\ progress = 0
    /\ toast = Toast("none", 0)
    /\ hpc = "idle"
    /\ runs = 0
    /\ proxy = 1
    /\ lstage = "none"
    /\ loadResult = "pending"
    /\ opc = "idle"
    /\ idx = 1
    /\ results = <<>>
    /\ vstate = [a \in Algorithms |-> "notStarted"]
    /\ segResult = NoSegResult
    /\ invoked = {}

InitIconIdle ==
    /\ img = [w |-> 0, h |-> 0, px |-> <<>>]
    /\ tolerance = 0
    /\ backgroundColor = <<255, 255, 255>>
    /\ ipc = "idle"
    /\ corner = 1
    /\ stack = <<>>
    /\ filled = <<>>
    /\ mask = <<>>

InitShapeIdle ==
    /\ variant = "none"
    /\ imageData = [w |-> 0, h |-> 0, px |-> <<>>, a |-> <<>>]
    /\ opts = [tolerance |-> 0]
    /\ maskData = <<>>
    /\ spc = "idle"
    /\ bgColor = <<255, 255, 255>>
    /\ bgMask = <<>>
    /\ edges = <<>>
    /\ shaped = <<>>
    /\ alphaMask = <<>>
    /\ outputData = [px |-> <<>>, a |-> <<>>]

\* The arguments gaussianBlur passes to Math.exp for radius 1 and 2, in
\* eighths: -(x * x) / (2 * sigma * sigma) is 0, -1.125 or -4.5.
ExpArgs == {9, 36}

\* No gaussianBlur call is under way.
InitBlurIdle ==
    /\ bpc = "idle"
    /\ blurArgs = [data |-> <<>>, width |-> 0, height |-> 0, radius |-> 0]
    /\ kernel = <<>>
    /\ temp = <<>>
    /\ result = <<>>

\* No canvas is being set up.
InitSizeIdle ==
    /\ zpc = "idle"
    /\ algorithm = "icon"
    /\ natural = [w |-> 1, h |-> 1]
    /\ canvas = [w |-> 0, h |-> 0]

\* No run is followed pixel by pixel.
InitRunIdle ==
    /\ imageElement = [w |-> 0, h |-> 0, px |-> <<>>, a |-> <<>>]
    /\ runAt = 1
    /\ blobs = [a \in Algorithms |-> [px |-> <<>>, a |-> <<>>]]

\* An engine whose Math.exp is correctly rounded for the arguments used (its
\* error is 0 for 9/8 and for 36/8).
InitNoBlur == InitBlurIdle /\ InitSizeIdle /\ InitRunIdle /\ mathExp = [a \in ExpArgs |-> 0]

\* ------------------------------------------------------- the user's clicks

\* The user picks one of the found images:
\* <RadioGroup onValueChange={setSelectedImageUrl}>. (Finding them,
\* handleSearchImages, is the scraping collaborator and is not modelled.)
SelectImage ==
    /\ ~selectedImageUrl
    /\ selectedImageUrl' = TRUE
    /\ UNCHANGED <<originalImage, processedResults, isProcessing,
                   progress, toast, hpc, runs, proxy, lstage, loadResult, opc, idx,
                   results, vstate, segResult, invoked>>
    /\ UNCHANGED <<iconVars, shapeVars, blurVars, sizeVars, runVars>>

\* handleReset ("Start Over"), rendered when there is something to reset; the
\* button is not disabled while a run is in flight.
handleReset ==
    /\ selectedImageUrl \/ originalImage \/ processedResults # <<>>
    /\ selectedImageUrl' = FALSE
    /\ originalImage' = FALSE
    /\ processedResults' = <<>>
    /\ UNCHANGED <<isProcessing, progress, toast, hpc, runs, proxy, lstage,
                   loadResult, opc, idx, results, vstate, segResult, invoked>>
    /\ UNCHANGED <<iconVars, shapeVars, blurVars, sizeVars, runVars>>

\* ------------------------------------------------------ handleProcessImage

\* The click on "Process with All Algorithms" (disabled while isProcessing or
\* with no image selected, so the handler's own !selectedImageUrl return is not
\* reachable from the button): setIsProcessing(true), setProgress(10), and the
\* handler suspends on loadImageFromUrl, which suspends on its first proxy fetch.
handleProcessImage ==
    /\ hpc = "idle"
    /\ ~isProcessing
    /\ selectedImageUrl
    /\ runs < MaxRuns
    /\ runs' = runs + 1
    /\ isProcessing' = TRUE
    /\ progress' = 10
    /\ hpc' = "load"
    /\ proxy' = 1
    /\ lstage' = "fetch"
    /\ loadResult' = "pending"
    /\ opc' = "idle"
    /\ idx' = 1
    /\ results' = <<>>
    /\ vstate' = [a \in Algorithms |-> "notStarted"]
    /\ segResult' = NoSegResult
    /\ invoked' = {}
    /\ UNCHANGED <<selectedImageUrl, originalImage, processedResults, toast>>
    /\ UNCHANGED <<iconVars, shapeVars, blurVars, sizeVars, runVars>>

\* ------------------------------------------------------- loadImageFromUrl

\* A proxy attempt fails inside the try block (fetch rejects or times out, the
\* status is not OK, response.blob() rejects, or the blob is no image): the
\* catch logs it and the loop goes on to the next proxy; after the third, the
\* direct load is started.
ProxyFails ==
    /\ hpc = "load" /\ lstage = "fetch"
    /\ proxy' = proxy + 1
    /\ lstage' = IF proxy = 3 THEN "direct" ELSE "fetch"
    /\ UNCHANGED <<selectedImageUrl, originalImage, processedResults,
                   isProcessing, progress, toast, hpc, runs, loadResult, opc, idx,
                   results, vstate, segResult, invoked>>
    /\ UNCHANGED <<iconVars, shapeVars, blurVars, sizeVars, runVars>>

\* A proxy returned an image blob: the function returns a promise on the
\* image element's load (a return without await, so outside the try's reach).
ProxyFetched ==
    /\ hpc = "load" /\ lstage = "fetch"
    /\ lstage' = "img"
    /\ UNCHANGED <<selectedImageUrl, originalImage, processedResults,
                   isProcessing, progress, toast, hpc, runs, proxy, loadResult, opc,
                   idx, results, vstate, segResult, invoked>>
    /\ UNCHANGED <<iconVars, shapeVars, blurVars, sizeVars, runVars>>

\* img.onload / img.onerror of the image made from the proxy's blob, and of the
\* direct load: the promise of loadImageFromUrl settles.
ImageSettles ==
    /\ hpc = "load" /\ lstage \in {"img", "direct"}
    /\ \E ok \in BOOLEAN : loadResult' = IF ok THEN "resolved" ELSE "rejected"
    /\ lstage' = "none"
    /\ UNCHANGED <<selectedImageUrl, originalImage, processedResults,
                   isProcessing, progress, toast, hpc, runs, proxy, opc, idx,
                   results, vstate, segResult, invoked>>
    /\ UNCHANGED <<iconVars, shapeVars, blurVars, sizeVars, runVars>>

\* ------------------------------------------- handleProcessImage, continued

\* The catch and finally blocks of handleProcessImage.
CatchAndFinally ==
    /\ toast' = Toast("Error", 0)
    /\ isProcessing' = FALSE
    /\ progress' = 0
    /\ hpc' = "idle"

\* setOriginalImage(selectedImageUrl), setProgress(30), and the call of
\* processImageWithAllAlgorithms, which enters its loop.
EnterOrchestrator ==
    /\ originalImage' = TRUE
    /\ progress' = 30
    /\ hpc' = "run"
    /\ opc' = "loop"

\* Mutant: a rejected load is swallowed and the run goes on.
AfterLoadSwallow ==
    /\ hpc = "load" /\ loadResult # "pending"
    /\ hpc' = "fetchOriginal"
    /\ proxy' = 1
    /\ UNCHANGED <<toast, isProcessing, progress, originalImage, opc>>
    /\ UNCHANGED <<selectedImageUrl, processedResults, runs,
                   lstage, loadResult, idx, results, vstate, segResult, invoked>>
    /\ UNCHANGED <<iconVars, shapeVars, blurVars, sizeVars, runVars>>

\* The handler resumes from "await loadImageFromUrl(...)": a rejection lands in
\* the catch block; otherwise it goes on to fetch the original as a blob. The
\* loader's frame (its loop over corsProxies) is gone.
AfterLoad ==
    /\ hpc = "load" /\ loadResult # "pending"
    /\ IF loadResult = "rejected"
         THEN /\ CatchAndFinally
              /\ UNCHANGED <<originalImage, opc>>
         ELSE /\ hpc' = "fetchOriginal"
              /\ UNCHANGED <<toast, isProcessing, progress, originalImage, opc>>
    /\ proxy' = 1
    /\ UNCHANGED <<selectedImageUrl, processedResults, runs,
                   lstage, loadResult, idx, results, vstate, segResult, invoked>>
    /\ UNCHANGED <<iconVars, shapeVars, blurVars, sizeVars, runVars>>

\* "await fetch(selectedImageUrl); await response.blob()": a rejection lands in
\* the catch block. Otherwise an SVG (with conversion enabled) is converted
\* first, setProgress(20); anything else goes to the orchestrator.
FetchOriginal ==
    /\ hpc = "fetchOriginal"
    /\ \E ok \in BOOLEAN, svg \in BOOLEAN :
         IF ~ok
           THEN /\ CatchAndFinally
                /\ UNCHANGED <<originalImage, opc>>
           ELSE IF svg
             THEN /\ hpc' = "svg"
                  /\ progress' = 20
                  /\ UNCHANGED <<toast, isProcessing, originalImage, opc>>
             ELSE /\ EnterOrchestrator
                  /\ UNCHANGED <<toast, isProcessing>>
    /\ UNCHANGED <<selectedImageUrl, processedResults, runs, proxy,
                   lstage, loadResult, idx, results, vstate, segResult, invoked>>
    /\ UNCHANGED <<iconVars, shapeVars, blurVars, sizeVars, runVars>>

\* convertSvgToPng + loadImage inside their own try: success toasts "SVG
\* Converted", failure toasts "Conversion Warning" and the run goes on with the
\* original image either way.
SvgConverted ==
    /\ hpc = "svg"
    /\ \E ok \in BOOLEAN :
         toast' = Toast(IF ok THEN "SVG Converted" ELSE "Conversion Warning", 0)
    /\ EnterOrchestrator
    /\ UNCHANGED <<selectedImageUrl, processedResults, isProcessing,
                   runs, proxy, lstage, loadResult, idx, results, vstate, segResult,
                   invoked>>
    /\ UNCHANGED <<iconVars, shapeVars, blurVars, sizeVars, runVars>>

\* The handler resumes from "await processImageWithAllAlgorithms(...)":
\* setProgress(90), setProcessedResults(results), setProgress(100), the
\* "Success!" toast naming results.length, then finally; a rejection would land
\* in the catch block.
AfterOrchestrator ==
    /\ hpc = "run" /\ opc \in Settled
    /\ IF opc = "resolved"
         THEN /\ processedResults' = results
              /\ toast' = Toast("Success!", Len(results))
              /\ isProcessing' = FALSE
              /\ progress' = 0
              /\ hpc' = "idle"
         ELSE /\ CatchAndFinally
              /\ UNCHANGED processedResults
    /\ UNCHANGED <<selectedImageUrl, originalImage, runs, proxy, lstage,
                   loadResult, opc, idx, results, vstate, segResult, invoked>>
    /\ UNCHANGED <<iconVars, shapeVars, blurVars, sizeVars, runVars>>

\* ------------------------------------------ processImageWithAllAlgorithms

\* The loop body up to its await: removeBackgroundWithAlgorithm is called for
\* algorithms[idx] and runs to its first suspension.
StartVariant ==
    /\ hpc = "run" /\ opc = "loop" /\ idx <= Len(algorithms)
    /\ LET a == algorithms[idx] IN
         /\ invoked' = invoked \cup {a}
         /\ \E ok \in BOOLEAN : vstate' = [vstate EXCEPT ![a] = FirstStage(a, ok)]
    /\ opc' = AfterStart(idx).opc
    /\ idx' = AfterStart(idx).idx
    /\ segResult' = NoSegResult
    /\ UNCHANGED <<selectedImageUrl, originalImage, processedResults,
                   isProcessing, progress, toast, hpc, runs, proxy, lstage,
                   loadResult, results>>
    /\ UNCHANGED <<iconVars, shapeVars, blurVars, sizeVars, runVars>>

\* An awaited stage of a variant completes: the model is loaded (and the
\* canvas drawn), or toBlob hands over the blob.
StageSucceeds ==
    /\ \E a \in InFlight :
         /\ vstate[a] \in {"model", "encode"}
         /\ vstate' = [vstate EXCEPT ![a] = NextStage(vstate[a])]
    /\ UNCHANGED <<selectedImageUrl, originalImage, processedResults,
                   isProcessing, progress, toast, hpc, runs, proxy, lstage,
                   loadResult, opc, idx, results, segResult, invoked>>
    /\ UNCHANGED <<iconVars, shapeVars, blurVars, sizeVars, runVars>>

\* An awaited stage of a variant fails: pipeline() rejects or the canvas that
\* follows it has no 2d context, the segmenter rejects, toBlob yields no blob.
\* Each variant rethrows from its own catch, so its promise rejects.
StageThrows ==
    /\ \E a \in InFlight : vstate' = [vstate EXCEPT ![a] = "rejected"]
    /\ UNCHANGED <<selectedImageUrl, originalImage, processedResults,
                   isProcessing, progress, toast, hpc, runs, proxy, lstage,
                   loadResult, opc, idx, results, segResult, invoked>>
    /\ UNCHANGED <<iconVars, shapeVars, blurVars, sizeVars, runVars>>

\* The segmenter returns: the variant validates the result, and if it passes,
\* writes the alpha channel from the mask and goes on to encode.
SegmenterReturns ==
    /\ \E a \in InFlight :
         /\ vstate[a] = "segment"
         /\ \E r \in SegResults :
              /\ segResult' = r
              /\ vstate' = [vstate EXCEPT
                              ![a] = IF InvalidSegmentation(r) THEN "rejected" ELSE "encode"]
    /\ UNCHANGED <<selectedImageUrl, originalImage, processedResults,
                   isProcessing, progress, toast, hpc, runs, proxy, lstage,
                   loadResult, opc, idx, results, invoked>>
    /\ UNCHANGED <<iconVars, shapeVars, blurVars, sizeVars, runVars>>

\* The loop resumes from its await: a blob is pushed onto results; a rejection
\* is caught and logged. Then the next iteration. The variant's frame (its
\* segmentation result) is gone.
VariantSettled ==
    /\ hpc = "run" /\ opc = "await" /\ idx <= Len(algorithms)
    /\ vstate[algorithms[idx]] \in Settled
    /\ IF vstate[algorithms[idx]] = "resolved"
         THEN /\ results' = PushResult(results, algorithms[idx])
              /\ opc' = "loop"
              /\ idx' = idx + 1
         ELSE /\ results' = results
              /\ opc' = CASE AfterCatch = "continue" -> "loop"
                          [] AfterCatch = "break"    -> "resolved"
                          [] OTHER                   -> "rejected"
              /\ idx' = idx + 1
    /\ segResult' = NoSegResult
    /\ UNCHANGED <<selectedImageUrl, originalImage, processedResults,
                   isProcessing, progress, toast, hpc, runs, proxy, lstage,
                   loadResult, vstate, invoked>>
    /\ UNCHANGED <<iconVars, shapeVars, blurVars, sizeVars, runVars>>

\* The loop is over: return results.
OrchestratorReturns ==
    /\ hpc = "run" /\ opc = "loop" /\ idx > Len(algorithms)
    /\ opc' = "resolved"
    /\ UNCHANGED <<selectedImageUrl, originalImage, processedResults,
                   isProcessing, progress, toast, hpc, runs, proxy, lstage,
                   loadResult, idx, results, vstate, segResult, invoked>>
    /\ UNCHANGED <<iconVars, shapeVars, blurVars, sizeVars, runVars>>

\* ------------------------------------------- removeIconBackground: mask

\* The colours the pixels are drawn from: black, a colour at distance exactly
\* 10 from it (6-8-10), and one at distance 30 from black and between 10 and
\* 35 from the other.
Palette == { <<0, 0, 0>>, <<6, 8, 0>>, <<0, 0, 30>> }

\* The values opts.tolerance is drawn from: exact match, the distance of the
\* near colour, and the value the orchestrator passes.
Tolerances == {0, 10, 35}

\* The images: every width and height of at least 1 with at most MaxPixels
\* pixels, every pixel any colour of the palette.
Images ==
    UNION { [w : {w}, h : {h}, px : [1..(w * h) -> Palette]] :
            <<w, h>> \in {wh \in (1..MaxPixels) \X (1..MaxPixels) :
                            wh[1] * wh[2] <= MaxPixels} }

\* [data[index], data[index + 1], data[index + 2]] with index = (y * width + x) * 4
PixelColor(image, x, y) == image.px[y * image.w + x + 1]

\* The radicand of getColorDistance: (r1-r2)**2 + (g1-g2)**2 + (b1-b2)**2.
getColorDistanceSq(color1, color2) ==
    (color1[1] - color2[1]) * (color1[1] - color2[1])
  + (color1[2] - color2[2]) * (color1[2] - color2[2])
  + (color1[3] - color2[3]) * (color1[3] - color2[3])

\* Mutant: the comparison is strict.
WithinToleranceStrict(color1, color2, tol) ==
    tol > 0 /\ getColorDistanceSq(color1, color2) < tol * tol

\* Mutant: the comparison is the wrong way round.
WithinToleranceInverted(color1, color2, tol) ==
    tol <= 0 \/ getColorDistanceSq(color1, color2) >= tol * tol

\* Mutant: the distance is compared without taking the square root.
WithinToleranceNoSqrt(color1, color2, tol) ==
    getColorDistanceSq(color1, color2) <= tol

\* getColorDistance(color1, color2) <= tolerance: the square root of a
\* non-negative integer is at most tol iff tol >= 0 and the integer is at most
\* tol squared.
WithinTolerance(color1, color2, tol) ==
    tol >= 0 /\ getColorDistanceSq(color1, color2) <= tol * tol

\* samplePoints: the four corners, then the top, bottom, left and right
\* midpoints, as <<x, y>>.
samplePoints(image) ==
    << <<0, 0>>, <<image.w - 1, 0>>, <<0, image.h - 1>>, <<image.w - 1, image.h - 1>>,
       <<image.w \div 2, 0>>, <<image.w \div 2, image.h - 1>>,
       <<0, image.h \div 2>>, <<image.w - 1, image.h \div 2>> >>

\* samples: the colour at each sample point.
Samples(image) ==
    [k \in 1..8 |-> PixelColor(image, samplePoints(image)[k][1], samplePoints(image)[k][2])]

\* colorCounts after the first k samples: a Map keeps its keys in insertion
\* order, so it is a sequence of [color, count] entries; a colour seen before
\* has its count incremented in place, a new one is appended with count 1.
RECURSIVE colorCounts(_, _)
colorCounts(samples, k) ==
    IF k = 0 THEN <<>>
    ELSE LET prev == colorCounts(samples, k - 1)
             color == samples[k]
             at == {i \in 1..Len(prev) : prev[i].color = color}
         IN IF at # {}
              THEN [i \in 1..Len(prev) |->
                      IF i \in at THEN [color |-> color, count |-> prev[i].count + 1]
                      ELSE prev[i]]
              ELSE Append(prev, [color |-> color, count |-> 1])

\* Mutant: the loop never assigns backgroundColor.
mostCommonStale(counts, k) == [maxCount |-> 0, backgroundColor |-> <<255, 255, 255>>]

\* Mutant: an entry also replaces the current one when its count is equal.
RECURSIVE mostCommonLast(_, _)
mostCommonLast(counts, k) ==
    IF k = 0 THEN [maxCount |-> 0, backgroundColor |-> <<255, 255, 255>>]
    ELSE LET prev == mostCommonLast(counts, k - 1) IN
         IF counts[k].count >= prev.maxCount
           THEN [maxCount |-> counts[k].count, backgroundColor |-> counts[k].color]
           ELSE prev

\* The forEach over colorCounts: [maxCount, backgroundColor] after the first k
\* entries, starting from 0 and white; an entry replaces the current one only
\* when its count is strictly greater.
RECURSIVE mostCommon(_, _)
mostCommon(counts, k) ==
    IF k = 0 THEN [maxCount |-> 0, backgroundColor |-> <<255, 255, 255>>]
    ELSE LET prev == mostCommon(counts, k - 1) IN
         IF counts[k].count > prev.maxCount
           THEN [maxCount |-> counts[k].count, backgroundColor |-> counts[k].color]
           ELSE prev

sampleBackgroundColor(image) ==
    LET counts == colorCounts(Samples(image), 8)
    IN mostCommon(counts, Len(counts)).backgroundColor

\* new Array(width * height).fill(false)
AllFalse(image) == [i \in 1..(image.w * image.h) |-> FALSE]

\* corners of removeIconBackground, as <<x, y>>.
corners(image) ==
    << <<0, 0>>, <<image.w - 1, 0>>, <<0, image.h - 1>>, <<image.w - 1, image.h - 1>> >>

\* Mutant: the loop body does not test filled[y * width + x].
floodFillStepNoVisited(image, targetColor, tol, st) ==
    LET top  == st.stack[Len(st.stack)]
        x    == top[1]
        y    == top[2]
        rest == SubSeq(st.stack, 1, Len(st.stack) - 1)
    IN IF x < 0 \/ x >= image.w \/ y < 0 \/ y >= image.h
         THEN [stack |-> rest, filled |-> st.filled]
         ELSE IF WithinTolerance(PixelColor(image, x, y), targetColor, tol)
           THEN [stack  |-> rest \o << <<x + 1, y>>, <<x - 1, y>>, <<x, y + 1>>, <<x, y - 1>> >>,
                 filled |-> [st.filled EXCEPT ![y * image.w + x + 1] = TRUE]]
           ELSE [stack |-> rest, filled |-> st.filled]

\* One iteration of floodFill's while loop on st = [stack, filled]: pop the
\* last entry; skip it when it is outside the image or already filled; when
\* its colour is within tolerance of the target, mark it and push its four
\* neighbours.
floodFillStep(image, targetColor, tol, st) ==
    LET top  == st.stack[Len(st.stack)]
        x    == top[1]
        y    == top[2]
        rest == SubSeq(st.stack, 1, Len(st.stack) - 1)
    IN IF x < 0 \/ x >= image.w \/ y < 0 \/ y >= image.h \/ st.filled[y * image.w + x + 1]
         THEN [stack |-> rest, filled |-> st.filled]
         ELSE IF WithinTolerance(PixelColor(image, x, y), targetColor, tol)
           THEN [stack  |-> rest \o << <<x + 1, y>>, <<x - 1, y>>, <<x, y + 1>>, <<x, y - 1>> >>,
                 filled |-> [st.filled EXCEPT ![y * image.w + x + 1] = TRUE]]
           ELSE [stack |-> rest, filled |-> st.filled]

\* The while loop run to its end.
RECURSIVE floodFillLoop(_, _, _, _)
floodFillLoop(image, targetColor, tol, st) ==
    IF st.stack = <<>> THEN st.filled
    ELSE floodFillLoop(image, targetColor, tol, floodFillStep(image, targetColor, tol, st))

\* floodFill(imageData, startX, startY, targetColor, tolerance)
floodFill(image, startX, startY, targetColor, tol) ==
    floodFillLoop(image, targetColor, tol,
                  [stack |-> << <<startX, startY>> >>, filled |-> AllFalse(image)])

\* Mutant: the merge keeps only what the mask already has.
MergeFillIntersect(m, cornerFill) == [i \in 1..Len(m) |-> m[i] /\ cornerFill[i]]

\* for (i = 0; i < mask.length; i++) if (cornerFill[i]) mask[i] = true
MergeFill(m, cornerFill) == [i \in 1..Len(m) |-> m[i] \/ cornerFill[i]]

\* const backgroundColor = sampleBackgroundColor(imageData); the mask starts
\* all false.
SampleBackground ==
    /\ ipc = "sample"
    /\ backgroundColor' = sampleBackgroundColor(img)
    /\ mask' = AllFalse(img)
    /\ corner' = 1
    /\ ipc' = "corner"
    /\ UNCHANGED <<img, tolerance, stack, filled>>
    /\ UNCHANGED <<uiVars, shapeVars, blurVars, sizeVars, runVars>>

\* The forEach over corners calls floodFill for the next corner: filled is
\* all false and the stack holds the seed.
FillStart ==
    /\ ipc = "corner" /\ corner <= 4
    /\ stack' = << corners(img)[corner] >>
    /\ filled' = AllFalse(img)
    /\ ipc' = "fill"
    /\ UNCHANGED <<img, tolerance, backgroundColor, corner, mask>>
    /\ UNCHANGED <<uiVars, shapeVars, blurVars, sizeVars, runVars>>

\* One iteration of floodFill's while loop.
FillIterate ==
    /\ ipc = "fill" /\ stack # <<>>
    /\ LET st == floodFillStep(img, backgroundColor, tolerance,
                               [stack |-> stack, filled |-> filled])
       IN /\ stack' = st.stack
          /\ filled' = st.filled
    /\ UNCHANGED <<img, tolerance, backgroundColor, ipc, corner, mask>>
    /\ UNCHANGED <<uiVars, shapeVars, blurVars, sizeVars, runVars>>

\* floodFill returns filled, and the forEach callback merges it into mask.
FillReturn ==
    /\ ipc = "fill" /\ stack = <<>>
    /\ mask' = MergeFill(mask, filled)
    /\ corner' = corner + 1
    /\ ipc' = "corner"
    /\ UNCHANGED <<img, tolerance, backgroundColor, stack, filled>>
    /\ UNCHANGED <<uiVars, shapeVars, blurVars, sizeVars, runVars>>

\* The forEach over corners is over: the mask is complete.
MaskDone ==
    /\ ipc = "corner" /\ corner > 4
    /\ ipc' = "masked"
    /\ UNCHANGED <<img, tolerance, backgroundColor, corner, stack, filled, mask>>
    /\ UNCHANGED <<uiVars, shapeVars, blurVars, sizeVars, runVars>>

NextIcon ==
    \/ SampleBackground
    \/ FillStart
    \/ FillIterate
    \/ FillReturn
    \/ MaskDone

InitIconSpec ==
    /\ InitUI
    /\ img \in Images
    /\ tolerance \in Tolerances
    /\ backgroundColor = <<255, 255, 255>>
    /\ ipc = "sample"
    /\ corner = 1
    /\ stack = <<>>
    /\ filled = <<>>
    /\ mask = <<>>
    /\ InitShapeIdle
    /\ InitNoBlur

SpecIcon == InitIconSpec /\ [][NextIcon]_vars

\* ------------------------------------------------ floodFill, called alone

\* Colours with extreme and with small distances: black, a dark red at
\* distance 20 from it, and white at the largest distance there is.
ShapePalette == { <<0, 0, 0>>, <<20, 0, 0>>, <<255, 255, 255>> }

ImagesOf(sizes, palette) ==
    UNION { [w : {wh[1]}, h : {wh[2]}, px : [1..(wh[1] * wh[2]) -> palette]] :
            wh \in sizes }

\* A call floodFill(imageData, startX, startY, targetColor, tolerance) is
\* entered: filled is all false and the stack holds the start.

\* The call runs its loop to the end and returns filled.
FloodFillCall ==
    /\ ipc = "call"
    /\ filled' = floodFill(img, stack[1][1], stack[1][2], backgroundColor, tolerance)
    /\ stack' = <<>>
    /\ ipc' = "returned"
    /\ UNCHANGED <<img, tolerance, backgroundColor, corner, mask>>
    /\ UNCHANGED <<uiVars, shapeVars, blurVars, sizeVars, runVars>>

InitFillSpec ==
    /\ InitUI
    /\ img \in ImagesOf({<<1, 1>>, <<2, 1>>, <<1, 2>>, <<3, 1>>, <<2, 2>>}, ShapePalette)
    \* tolerances around the largest RGB distance sqrt(3 * 255^2) = 441.67...
    /\ tolerance \in {0, 441, 442}
    /\ backgroundColor \in ShapePalette
    /\ ipc = "call"
    /\ corner = 1
    /\ stack \in { <<seed>> : seed \in
                     ((0..(img.w - 1)) \X (0..(img.h - 1))) \cup {<<-1, 0>>, <<0, img.h>>} }
    /\ filled = AllFalse(img)
    /\ mask = <<>>
    /\ InitShapeIdle
    /\ InitNoBlur

SpecFill == InitFillSpec /\ [][FloodFillCall]_vars

\* ------------------------------------- removeIconBackground: pixel stage

\* Alpha bytes of the decoded input: opaque, or half transparent.
InputAlphas == {255, 128}

\* Sizes with no interior pixel, and the smallest size that has one.
ShapeSizes == {<<1, 1>>, <<2, 1>>, <<1, 2>>, <<2, 2>>, <<3, 3>>}

\* The sizes among them with no interior pixel.
FlatSizes == {wh \in ShapeSizes : wh[1] < 3 \/ wh[2] < 3}

\* An image with every alpha byte set to alpha.
WithAlpha(image, alpha) ==
    [w |-> image.w, h |-> image.h, px |-> image.px,
     a |-> [i \in 1..(image.w * image.h) |-> alpha]]

\* The decoded inputs: every pixel any colour of the palette; opaque images
\* of every size, and half-transparent ones of the sizes with no interior.
ShapeInputs ==
    { WithAlpha(image, 255) : image \in ImagesOf(ShapeSizes, ShapePalette) }
      \cup { WithAlpha(image, alpha) :
              image \in ImagesOf(FlatSizes, ShapePalette), alpha \in InputAlphas }

\* opts of removeIconBackground: tolerance 0, or what the orchestrator passes;
\* edgeThreshold is carried and never read.
IconOptions == [tolerance : {0, 35}, edgeThreshold : {10}, smoothing : BOOLEAN]

\* for (y = 1; y < height - 1; y++) for (x = 1; x < width - 1; x++): pixel i
\* (1-based, row-major) is visited by the loops over the interior.
Interior(image, i) ==
    LET x == (i - 1) % image.w
        y == (i - 1) \div image.w
    IN x >= 1 /\ x < image.w - 1 /\ y >= 1 /\ y < image.h - 1

\* data[(y * width + x) * 4]: the red byte.
Red(image, x, y) == PixelColor(image, x, y)[1]

\* detectEdges of the icon variant: Sobel on the red channel at the interior
\* pixels, magnitude > 50 (sqrt(gx*gx + gy*gy) > 50 iff gx*gx + gy*gy > 2500),
\* false elsewhere.
detectEdges(image) ==
    [i \in 1..(image.w * image.h) |->
        IF Interior(image, i)
          THEN LET x == (i - 1) % image.w
                   y == (i - 1) \div image.w
                   gx == - Red(image, x - 1, y - 1) + Red(image, x + 1, y - 1)
                         - 2 * Red(image, x - 1, y) + 2 * Red(image, x + 1, y)
                         - Red(image, x - 1, y + 1) + Red(image, x + 1, y + 1)
                   gy == - Red(image, x - 1, y - 1) - 2 * Red(image, x, y - 1)
                         - Red(image, x + 1, y - 1) + Red(image, x - 1, y + 1)
                         + 2 * Red(image, x, y + 1) + Red(image, x + 1, y + 1)
               IN gx * gx + gy * gy > 2500
          ELSE FALSE]

\* The corners.forEach of removeIconBackground: the four corner fills merged
\* into a mask that starts all false.
cornerMask(image, targetColor, tol) ==
    LET fill(c) == floodFill(image, corners(image)[c][1], corners(image)[c][2],
                             targetColor, tol)
    IN MergeFill(MergeFill(MergeFill(MergeFill(AllFalse(image), fill(1)), fill(2)),
                           fill(3)), fill(4))

\* outputData[i + 3] = max(0, min(255, (colorDistance / tolerance) * 255))
\* for colorDistance < tolerance: the byte stored in the Uint8ClampedArray is
\* the integer nearest to 255 * sqrt(d2) / tol, a tie going to the even one.
\* With A = (2 * 255)^2 * d2, k is nearest iff ((2k-1) * tol)^2 <= A <=
\* ((2k+1) * tol)^2.
rampAlpha(d2, tol) ==
    LET A == 4 * 255 * 255 * d2
    IN CHOOSE k \in 0..255 :
         LET L == (2 * k - 1) * tol
             U == (2 * k + 1) * tol
         IN /\ (k = 0 \/ L * L < A \/ (L * L = A /\ k % 2 = 0))
            /\ (A < U * U \/ (A = U * U /\ k % 2 = 0))

\* Mutant: a pixel of the mask is made transparent even when it is an edge.
iconAlphaNoEdges(image, targetColor, m, e, tol) ==
    [i \in 1..(image.w * image.h) |->
        IF m[i]
          THEN 0
          ELSE LET d2 == getColorDistanceSq(image.px[i], targetColor)
               IN IF tol > 0 /\ d2 < tol * tol
                    THEN rampAlpha(d2, tol)
                    ELSE image.a[i]]

\* The alpha loop of removeIconBackground: 0 for a mask pixel that is not an
\* edge; else the ramp when the colour is closer than tolerance to the
\* background colour; else the input's own alpha byte.
iconAlpha(image, targetColor, m, e, tol) ==
    [i \in 1..(image.w * image.h) |->
        IF m[i] /\ ~e[i]
          THEN 0
          ELSE LET d2 == getColorDistanceSq(image.px[i], targetColor)
               IN IF tol > 0 /\ d2 < tol * tol
                    THEN rampAlpha(d2, tol)
                    ELSE image.a[i]]

\* Mutant: the smoothing pass writes into outputData itself, so the pixels
\* above and to the left are read already smoothed.
smoothAlphaInPlace(image, alpha) ==
    LET RECURSIVE from(_, _)
        from(a, i) ==
            IF i > image.w * image.h THEN a
            ELSE from(IF Interior(image, i)
                        THEN [a EXCEPT ![i] =
                                 (2 * (a[i] + a[i - image.w] + a[i - 1]
                                       + a[i + 1] + a[i + image.w]) + 5) \div 10]
                        ELSE a,
                      i + 1)
    IN from(alpha, 1)

\* The smoothing pass: at an interior pixel Math.round of the mean of the
\* pixel's and its four neighbours' alpha read from outputData (written to the
\* copy smoothData); the other pixels keep their alpha.
smoothAlpha(image, alpha) ==
    [i \in 1..(image.w * image.h) |->
        IF Interior(image, i)
          THEN (2 * (alpha[i] + alpha[i - image.w] + alpha[i - 1] + alpha[i + 1]
                     + alpha[i + image.w]) + 5) \div 10
          ELSE alpha[i]]

InitShapeIcon ==
    /\ variant = "icon"
    /\ imageData \in ShapeInputs
    /\ opts \in IconOptions
    /\ maskData = <<>>
    /\ spc = "start"
    /\ bgColor = <<255, 255, 255>>
    /\ bgMask = <<>>
    /\ edges = <<>>
    /\ shaped = <<>>
    /\ alphaMask = <<>>
    /\ outputData = [px |-> <<>>, a |-> <<>>]

\* removeIconBackground from getImageData to putImageData: sample the
\* background colour, build the mask, detect the edges, write RGB and alpha to
\* outputData, smooth when opts.smoothing.
removeIconBackground ==
    /\ spc = "start" /\ variant = "icon"
    /\ bgColor' = sampleBackgroundColor(imageData)
    /\ bgMask' = cornerMask(imageData, bgColor', opts.tolerance)
    /\ edges' = detectEdges(imageData)
    /\ shaped' = iconAlpha(imageData, bgColor', bgMask', edges', opts.tolerance)
    /\ outputData' = [px |-> imageData.px,
                      a  |-> IF opts.smoothing THEN smoothAlpha(imageData, shaped')
                             ELSE shaped']
    /\ spc' = "done"
    /\ UNCHANGED <<variant, imageData, opts, maskData, alphaMask>>
    /\ UNCHANGED <<uiVars, iconVars, blurVars, sizeVars, runVars>>

\* Inputs of the smallest size with two neighbouring interior pixels, 4x3:
\* opaque, every pixel one of two colours, the pair either within the
\* orchestrator's tolerance of each other or far apart.
SmoothInputs ==
    { WithAlpha(image, 255) :
        image \in ImagesOf({<<4, 3>>}, { <<0, 0, 0>>, <<20, 0, 0>> })
                    \cup ImagesOf({<<4, 3>>}, { <<20, 0, 0>>, <<255, 255, 255>> }) }

InitSmoothSpec ==
    /\ InitUI
    /\ InitIconIdle
    /\ variant = "icon"
    /\ imageData \in SmoothInputs
    /\ opts \in IconOptions
    /\ maskData = <<>>
    /\ spc = "start"
    /\ bgColor = <<255, 255, 255>>
    /\ bgMask = <<>>
    /\ edges = <<>>
    /\ shaped = <<>>
    /\ alphaMask = <<>>
    /\ outputData = [px |-> <<>>, a |-> <<>>]
    /\ InitNoBlur

SpecSmooth == InitSmoothSpec /\ [][removeIconBackground]_vars

\* ------------------------------------------ Number arithmetic (binary64)

\* The luminance sums of the inkscape variant are computed in JavaScript
\* Numbers: every + and * is rounded to 53 significant bits, to nearest, ties
\* to even. Every value that occurs is a multiple of 2^-56 below 2^24, so a
\* magnitude is a natural number below 2^80 counting units of 2^-56, held as
\* four limbs, least significant first, and a Number is [neg, mag].
LimbBase == 2^20

Zero4 == <<0, 0, 0, 0>>

MagAdd(a, b) ==
    LET s1 == a[1] + b[1]
        s2 == a[2] + b[2] + (s1 \div LimbBase)
        s3 == a[3] + b[3] + (s2 \div LimbBase)
        s4 == a[4] + b[4] + (s3 \div LimbBase)
    IN << s1 % LimbBase, s2 % LimbBase, s3 % LimbBase, s4 % LimbBase >>

\* a - b for a >= b (a borrow is a carry of -1).
MagSub(a, b) ==
    LET d1 == a[1] - b[1]
        d2 == a[2] - b[2] + (d1 \div LimbBase)
        d3 == a[3] - b[3] + (d2 \div LimbBase)
        d4 == a[4] - b[4] + (d3 \div LimbBase)
    IN << d1 % LimbBase, d2 % LimbBase, d3 % LimbBase, d4 % LimbBase >>

MagLess(a, b) ==
    \E j \in 1..4 : a[j] < b[j] /\ \A k \in (j + 1)..4 : a[k] = b[k]

\* a * n for a byte n.
MagMulByte(a, n) ==
    LET p1 == a[1] * n
        p2 == a[2] * n + (p1 \div LimbBase)
        p3 == a[3] * n + (p2 \div LimbBase)
        p4 == a[4] * n + (p3 \div LimbBase)
    IN << p1 % LimbBase, p2 % LimbBase, p3 % LimbBase, p4 % LimbBase >>

\* Bit i (from 0) of a magnitude, and the number of its significant bits.
Bit(a, i) == (a[(i \div 20) + 1] \div 2^(i % 20)) % 2

BitLength(a) ==
    IF a = Zero4 THEN 0
    ELSE LET top == CHOOSE j \in 1..4 : a[j] # 0 /\ \A k \in (j + 1)..4 : a[k] = 0
         IN 20 * (top - 1) + (CHOOSE k \in 1..20 : 2^(k - 1) <= a[top] /\ a[top] < 2^k)

\* 2^q as a magnitude, and a magnitude with its q low bits cleared.
Pow2Mag(q) == [j \in 1..4 |-> IF j = (q \div 20) + 1 THEN 2^(q % 20) ELSE 0]

ClearLow(a, q) ==
    [j \in 1..4 |->
        IF q >= 20 * j THEN 0
        ELSE IF q <= 20 * (j - 1) THEN a[j]
        ELSE a[j] - (a[j] % 2^(q - 20 * (j - 1)))]

\* The exact result a rounded to 53 significant bits: the bits below are
\* dropped, and one unit of the last kept bit is added when the dropped part
\* is above half a unit, or is half a unit and the last kept bit is odd.
RoundMag(a) ==
    LET q == BitLength(a) - 53
    IN IF q <= 0 THEN a
       ELSE LET kept == ClearLow(a, q)
                half == Bit(a, q - 1) = 1
                more == ClearLow(a, q - 1) # a
                odd  == Bit(a, q) = 1
            IN IF half /\ (more \/ odd) THEN MagAdd(kept, Pow2Mag(q)) ELSE kept

FNeg(x) == [neg |-> ~x.neg, mag |-> x.mag]

\* x + y, rounded.
FAdd(x, y) ==
    IF x.neg = y.neg
      THEN [neg |-> x.neg, mag |-> RoundMag(MagAdd(x.mag, y.mag))]
      ELSE IF MagLess(x.mag, y.mag)
        THEN [neg |-> y.neg, mag |-> RoundMag(MagSub(y.mag, x.mag))]
        ELSE [neg |-> x.neg /\ x.mag # y.mag, mag |-> RoundMag(MagSub(x.mag, y.mag))]

FSub(x, y) == FAdd(x, FNeg(y))

\* 2 * x: exact.
FTwice(x) == [neg |-> x.neg, mag |-> MagAdd(x.mag, x.mag)]

\* c * n for a positive constant c and a byte n, rounded.
FMulByte(c, n) == [neg |-> FALSE, mag |-> RoundMag(MagMulByte(c, n))]

\* The Numbers 0.299, 0.587 and 0.114: 5386305154335113 * 2^-54,
\* 5287225962532962 * 2^-53 and 8214565720323785 * 2^-56.
C299 == <<67108, 276824, 19595, 0>>

C587 == <<33552, 662700, 38469, 0>>

C114 == <<947913, 109051, 7471, 0>>

\* --------------------------------------------- inkscapeBackgroundRemoval

\* Colours of the inkscape inputs: the dark red and white.
InkPalette == { <<20, 0, 0>>, <<255, 255, 255>> }

InkInputs == { WithAlpha(image, 255) : image \in ImagesOf(ShapeSizes, InkPalette) }

InkscapeOptions == [threshold : {128}, simplification : {2}, smoothing : {TRUE}]

\* The 3x3 neighbourhood of an interior pixel.
Around(image, i) == { i + dy * image.w + dx : dx \in {-1, 0, 1}, dy \in {-1, 0, 1} }

\* neighbors.sort(...)[4]: the fifth smallest of the nine values of a channel.
Median(image, i, channel) ==
    CHOOSE v \in { image.px[j][channel] : j \in Around(image, i) } :
        /\ Cardinality({ j \in Around(image, i) : image.px[j][channel] < v }) <= 4
        /\ Cardinality({ j \in Around(image, i) : image.px[j][channel] <= v }) >= 5

\* medianFilter on R, G and B: each interior pixel's channel becomes the
\* median of its neighbourhood in the data before the call, written in place.
medianFilter(image) ==
    [w |-> image.w, h |-> image.h, a |-> image.a,
     px |-> [i \in 1..(image.w * image.h) |->
                IF Interior(image, i)
                  THEN << Median(image, i, 1), Median(image, i, 2), Median(image, i, 3) >>
                  ELSE image.px[i]]]

\* getIntensity: 0.299 * r + 0.587 * g + 0.114 * b, left to right.
getIntensity(image, x, y) ==
    LET c == PixelColor(image, x, y)
    IN FAdd(FAdd(FMulByte(C299, c[1]), FMulByte(C587, c[2])), FMulByte(C114, c[3]))

FZero == [neg |-> FALSE, mag |-> Zero4]

\* detectEdges of the inkscape variant: the Sobel sums gx and gy of the
\* luminance at the interior pixels, each sum evaluated left to right as
\* written; 0 elsewhere. The magnitude sqrt(gx*gx + gy*gy) is 0 exactly when
\* both sums are.
detectEdgesInkscape(image) ==
    [i \in 1..(image.w * image.h) |->
        IF Interior(image, i)
          THEN LET x == (i - 1) % image.w
                   y == (i - 1) \div image.w
                   I(dx, dy) == getIntensity(image, x + dx, y + dy)
               IN [gx |-> FAdd(FAdd(FAdd(FAdd(FAdd(FNeg(I(-1, -1)), I(1, -1)),
                                                FNeg(FTwice(I(-1, 0)))),
                                           FTwice(I(1, 0))),
                                      FNeg(I(-1, 1))),
                                 I(1, 1)),
                   gy |-> FAdd(FAdd(FAdd(FSub(FSub(FNeg(I(-1, -1)), FTwice(I(0, -1))),
                                                I(1, -1)),
                                           I(-1, 1)),
                                      FTwice(I(0, 1))),
                                 I(1, 1))]
          ELSE [gx |-> FZero, gy |-> FZero]]

\* The edge magnitude is 0.
NoEdge(e) == e.gx.mag = Zero4 /\ e.gy.mag = Zero4

\* Math.round of the mean of the four corner colours, per channel.
cornerAverage(image) ==
    [ch \in 1..3 |->
        (PixelColor(image, 0, 0)[ch] + PixelColor(image, image.w - 1, 0)[ch]
         + PixelColor(image, 0, image.h - 1)[ch]
         + PixelColor(image, image.w - 1, image.h - 1)[ch] + 2) \div 4]

\* maxEdge = Math.max(...edges) is 0: every edges[pixelIndex] / maxEdge is
\* then 0 / 0, NaN.
maxEdgeIsZero(e) == \A j \in 1..Len(e) : NoEdge(e[j])

\* edges[pixelIndex] / maxEdge when maxEdge is not 0: 0 for a pixel with no
\* edge and 1 for the pixel that has the maximum (the sizes drawn have at most
\* one interior pixel, so a pixel with an edge is the maximum).
edgeStrength(e, i) == IF NoEdge(e[i]) THEN 0 ELSE 1

\* The integer nearest to sqrt(d2) (never a tie for an integer d2).
roundSqrt(d2) ==
    CHOOSE k \in 0..442 : (k = 0 \/ (2 * k - 1) * (2 * k - 1) < 4 * d2)
                          /\ 4 * d2 < (2 * k + 1) * (2 * k + 1)

\* The alpha loop of the inkscape variant. When maxEdge is 0 edgeStrength is
\* NaN: edgeStrength > 0.3 is false, and where colorDiff > threshold the
\* value Math.min(255, colorDiff + NaN) is NaN, which the byte array stores
\* as 0, so every alpha is 0. Otherwise alpha stays 0 unless colorDiff >
\* threshold or edgeStrength > 0.3, and then the byte stored is
\* min(255, colorDiff + edgeStrength * 128) rounded to nearest.
inkscapeAlpha(image, targetColor, e, threshold) ==
    [i \in 1..(image.w * image.h) |->
        LET d2 == getColorDistanceSq(image.px[i], targetColor)
            s  == edgeStrength(e, i)
        IN IF maxEdgeIsZero(e)
             THEN 0
             ELSE IF d2 > threshold * threshold \/ s = 1
               THEN IF roundSqrt(d2) + s * 128 > 255 THEN 255
                    ELSE roundSqrt(d2) + s * 128
               ELSE 0]

InitShapeInkscape ==
    /\ variant = "inkscape"
    /\ imageData \in InkInputs
    /\ opts \in InkscapeOptions
    /\ maskData = <<>>
    /\ spc = "start"
    /\ bgColor = <<255, 255, 255>>
    /\ bgMask = <<>>
    /\ edges = <<>>
    /\ shaped = <<>>
    /\ alphaMask = <<>>
    /\ outputData = [px |-> <<>>, a |-> <<>>]

\* inkscapeBackgroundRemoval from getImageData to putImageData: filter the
\* data in place, detect the edges, average the corners, write RGB and alpha.
inkscapeBackgroundRemoval ==
    /\ spc = "start" /\ variant = "inkscape"
    /\ LET data == medianFilter(imageData)
       IN /\ edges' = detectEdgesInkscape(data)
          /\ bgColor' = cornerAverage(data)
          /\ shaped' = inkscapeAlpha(data, bgColor', edges', opts.threshold)
          /\ outputData' = [px |-> data.px, a |-> shaped']
    /\ bgMask' = <<>>
    /\ spc' = "done"
    /\ UNCHANGED <<variant, imageData, opts, maskData, alphaMask>>
    /\ UNCHANGED <<uiVars, iconVars, blurVars, sizeVars, runVars>>

\* ------------------------------------- Number arithmetic of gaussianBlur

\* The Numbers gaussianBlur computes with lie in [2^-16, 2) or are 0 (and
\* those of the modnet resize, once scaled by 2^-13, in [2^-17, 1)), so
\* each is a multiple of 2^-72: a Number is held as the natural number of
\* units of 2^-72 it counts, in limbs of 12 bits, least significant first
\* (seven limbs for a Number, more for an exact product or dividend).
WideBase == 2^12

\* Limbs of a Number.
WideLen == 7

WideZero(n) == [j \in 1..n |-> 0]

WideOne == <<0, 0, 0, 0, 0, 0, 1>>

\* a + b for a and b of the same length (the sum fits).
WideAdd(a, b) ==
    LET RECURSIVE from(_, _)
        from(j, c) ==
            IF j > Len(a) THEN <<>>
            ELSE LET s == a[j] + b[j] + c
                 IN <<s % WideBase>> \o from(j + 1, s \div WideBase)
    IN from(1, 0)

\* a - b for a >= b of the same length (a borrow is a carry of -1).
WideSub(a, b) ==
    LET RECURSIVE from(_, _)
        from(j, c) ==
            IF j > Len(a) THEN <<>>
            ELSE LET d == a[j] - b[j] + c
                 IN <<d % WideBase>> \o from(j + 1, d \div WideBase)
    IN from(1, 0)

WideLess(a, b) ==
    \E j \in 1..Len(a) : a[j] < b[j] /\ \A k \in (j + 1)..Len(a) : a[k] = b[k]

\* The exact product a * b, of Len(a) + Len(b) limbs: column k of the
\* schoolbook product is the sum of a[i] * b[k + 1 - i].
WideMul(a, b) ==
    LET RECURSIVE column(_, _)
        column(k, i) ==
            IF i > Len(a) THEN 0
            ELSE (IF k + 1 - i >= 1 /\ k + 1 - i <= Len(b) THEN a[i] * b[k + 1 - i] ELSE 0)
                 + column(k, i + 1)
        RECURSIVE from(_, _)
        from(k, c) ==
            IF k > Len(a) + Len(b) THEN <<>>
            ELSE LET s == column(k, 1) + c
                 IN <<s % WideBase>> \o from(k + 1, s \div WideBase)
    IN from(1, 0)

\* a rounded to 53 significant bits, to nearest, a tie to the even one: what
\* every +, * and / of two Numbers does to its exact result.
WideRound(a) ==
    LET bit(i) == (a[(i \div 12) + 1] \div 2^(i % 12)) % 2
        top == CHOOSE j \in 1..Len(a) : a[j] # 0 /\ \A k \in (j + 1)..Len(a) : a[k] = 0
        bitLength ==
            IF \A j \in 1..Len(a) : a[j] = 0 THEN 0
            ELSE 12 * (top - 1) + (CHOOSE k \in 1..12 : 2^(k - 1) <= a[top] /\ a[top] < 2^k)
        anyBelow(q) ==
            \/ \E j \in 1..(q \div 12) : a[j] # 0
            \/ a[(q \div 12) + 1] % 2^(q % 12) # 0
        clearLow(q) ==
            [j \in 1..Len(a) |->
                IF j < (q \div 12) + 1 THEN 0
                ELSE IF j = (q \div 12) + 1 THEN a[j] - (a[j] % 2^(q % 12))
                ELSE a[j]]
        pow2(q) == [j \in 1..Len(a) |-> IF j = (q \div 12) + 1 THEN 2^(q % 12) ELSE 0]
    IN IF bitLength <= 53 THEN a
       ELSE LET q == bitLength - 53
                up == bit(q - 1) = 1 /\ (anyBelow(q - 1) \/ bit(q) = 1)
            IN IF up THEN WideAdd(clearLow(q), pow2(q)) ELSE clearLow(q)

\* a + b of two Numbers.
NumAdd(a, b) == WideRound(WideAdd(a, b))

\* a * b of two Numbers: the exact product counts units of 2^-144, and once
\* rounded it is a multiple of 2^-72 again.
NumMul(a, b) == SubSeq(WideRound(WideMul(a, b)), WideLen, 2 * WideLen - 1)

\* a / b of two Numbers, 0 < a <= b: the quotient of a * 2^72 by 2b, doubled,
\* with its last bit set when the division left a remainder, is rounded.
\* digit: twelve steps of long division, r is doubled and d subtracted when
\* it fits, the quotient bits gathered in q. limbs: the n limbs of
\* floor(r * 2^(12 n) / d) for r < d, and the remainder.
NumDiv(a, b) ==
    LET d == WideAdd(b, b)
        RECURSIVE digit(_, _, _)
        digit(r, k, q) ==
            IF k = 0 THEN [q |-> q, r |-> r]
            ELSE LET r2 == WideAdd(r, r)
                 IN IF WideLess(r2, d)
                      THEN digit(r2, k - 1, 2 * q)
                      ELSE digit(WideSub(r2, d), k - 1, 2 * q + 1)
        RECURSIVE limbs(_, _)
        limbs(r, n) ==
            IF n = 0 THEN [q |-> <<>>, r |-> r]
            ELSE LET dg == digit(r, 12, 0)
                     rest == limbs(dg.r, n - 1)
                 IN [q |-> rest.q \o <<dg.q>>, r |-> rest.r]
        qr == limbs(a, WideLen - 1)
        half == qr.q \o <<0>>
        twice == WideAdd(half, half)
        x == IF qr.r = WideZero(WideLen) THEN twice ELSE [twice EXCEPT ![1] = @ + 1]
    IN WideRound(x)

\* ------------------------------------------------------------ gaussianBlur

\* Math.exp(-a / 8). Math.exp is implementation-approximated: an engine
\* returns the correctly rounded value or a neighbour of it, and mathExp[a]
\* is how many units in the last place its result lies above the correctly
\* rounded one. The correctly rounded exp(-1.125) = 0x1.4c71b2477ab20p-2 and
\* exp(-4.5) = 0x1.6c0504695c417p-7, and one unit in the last place of each
\* is 2^-54, 2^-59.
MathExp(a) ==
    LET rounded == CASE a = 9  -> <<0, 2048, 3756, 2333, 3180, 1329, 0>>
                     [] a = 36 -> <<0, 2094, 696, 141, 2058, 45, 0>>
        ulp == CASE a = 9  -> <<0, 64, 0, 0, 0, 0, 0>>
                 [] a = 36 -> <<0, 2, 0, 0, 0, 0, 0>>
    IN IF a = 0 THEN WideOne
       ELSE CASE mathExp[a] = 0  -> rounded
              [] mathExp[a] = 1  -> WideAdd(rounded, ulp)
              [] mathExp[a] = -1 -> WideSub(rounded, ulp)

\* The kernel before it is normalised: value = Math.exp(-(x * x) / (2 * sigma
\* * sigma)) for x = i - floor(kernelSize / 2), with sigma = radius / 3 and
\* kernelSize = ceil(radius) * 2 + 1.
kernelValues(radius) ==
    [i \in 1..(2 * radius + 1) |->
        MathExp((36 * (i - 1 - radius) * (i - 1 - radius)) \div (radius * radius))]

\* sum += value, from 0, in index order.
RECURSIVE NumSum(_, _, _)
NumSum(values, i, sum) ==
    IF i > Len(values) THEN sum
    ELSE NumSum(values, i + 1, NumAdd(sum, values[i]))

\* Mutant: the kernel left as generated, not normalised.
gaussianKernelRaw(radius) == kernelValues(radius)

\* kernel[i] /= sum.
gaussianKernel(radius) ==
    LET values == kernelValues(radius)
        sum == NumSum(values, 1, WideZero(WideLen))
    IN [i \in 1..Len(values) |-> NumDiv(values[i], sum)]

\* One pass of the blur at position c of a line of n values, the line being
\* values[first], values[first + step], ...: sum += line[c + k -
\* floor(kernelSize / 2)] * kernel[k] for the taps k, in order, that fall
\* inside the line.
RECURSIVE blurTaps(_, _, _, _, _, _, _, _)
blurTaps(values, first, step, c, n, weights, k, sum) ==
    IF k > Len(weights) THEN sum
    ELSE LET j == c + (k - 1) - (Len(weights) \div 2)
         IN blurTaps(values, first, step, c, n, weights, k + 1,
                     IF j >= 0 /\ j < n
                       THEN NumAdd(sum, NumMul(values[first + j * step], weights[k]))
                       ELSE sum)

\* The horizontal pass: temp.
horizontalBlur(data, width, height, weights) ==
    [i \in 1..(width * height) |->
        blurTaps(data, ((i - 1) \div width) * width + 1, 1, (i - 1) % width, width,
                 weights, 1, WideZero(WideLen))]

\* The vertical pass over temp: result.
verticalBlur(firstPass, width, height, weights) ==
    [i \in 1..(width * height) |->
        blurTaps(firstPass, ((i - 1) % width) + 1, width, (i - 1) \div width, height,
                 weights, 1, WideZero(WideLen))]

\* gaussianBlur: the normalised kernel, the horizontal pass into temp, then
\* the vertical pass over temp; a tap that falls outside the image is dropped
\* and the rest are not renormalised.
gaussianBlur(data, width, height, radius) ==
    LET k == gaussianKernel(radius)
    IN verticalBlur(horizontalBlur(data, width, height, k), width, height, k)

\* The calls of gaussianBlur: radius 1 or 2, on every mask of zeros and ones
\* on 2x2 and on the constant masks on sizes that have a pixel ceil(radius)
\* away from all four borders (3x3 for radius 1; 5x5 and 6x5 for radius 2).
BlurInputs ==
    { [data |-> d, width |-> 2, height |-> 2, radius |-> r] :
        r \in {1, 2}, d \in [1..4 -> {WideZero(WideLen), WideOne}] }
    \cup
    { [data |-> [i \in 1..(sz[1] * sz[2]) |-> v], width |-> sz[1], height |-> sz[2],
       radius |-> r] :
        sz \in {<<3, 3>>, <<5, 5>>, <<6, 5>>}, r \in {1, 2},
        v \in {WideZero(WideLen), WideOne} }

\* The call: kernel, temp and result as the function leaves them.
gaussianBlurCall ==
    /\ bpc = "call"
    /\ kernel' = gaussianKernel(blurArgs.radius)
    /\ temp' = horizontalBlur(blurArgs.data, blurArgs.width, blurArgs.height, kernel')
    /\ result' = verticalBlur(temp', blurArgs.width, blurArgs.height, kernel')
    /\ bpc' = "done"
    /\ UNCHANGED <<mathExp, blurArgs>>
    /\ UNCHANGED <<uiVars, iconVars, shapeVars, sizeVars, runVars>>

\* A call of gaussianBlur(data, width, height, radius) about to run, on any
\* engine.
InitBlurSpec ==
    /\ InitUI /\ InitIconIdle /\ InitShapeIdle /\ InitSizeIdle /\ InitRunIdle
    /\ bpc = "call"
    /\ blurArgs \in BlurInputs
    /\ mathExp \in [ExpArgs -> {-1, 0, 1}]
    /\ kernel = <<>>
    /\ temp = <<>>
    /\ result = <<>>

SpecBlur == InitBlurSpec /\ [][gaussianBlurCall]_vars

\* -------------------------------------------------------- the working canvas

\* MAX_IMAGE_DIMENSION (backgroundRemoval.ts) and maxDim (modnetAlgorithm.ts).
MAX_IMAGE_DIMENSION == 1024

maxDim == 512

\* Mutant: the canvas always takes the image's size.
resizeNever(width, height) == [w |-> width, h |-> height]

\* resizeImageIfNeeded: the size the canvas is given. Math.round(n / d) for
\* integers n >= 0, d > 0 is floor((2n + d) / 2d): the quotient is never
\* close enough to a half-integer for its rounding to a Number to matter.
resizeImageIfNeeded(width, height) ==
    LET roundDiv(n, d) == (2 * n + d) \div (2 * d)
    IN IF width > MAX_IMAGE_DIMENSION \/ height > MAX_IMAGE_DIMENSION
         THEN IF width > height
                THEN [w |-> MAX_IMAGE_DIMENSION,
                      h |-> roundDiv(height * MAX_IMAGE_DIMENSION, width)]
                ELSE [w |-> roundDiv(width * MAX_IMAGE_DIMENSION, height),
                      h |-> MAX_IMAGE_DIMENSION]
         ELSE [w |-> width, h |-> height]

\* modnetBackgroundRemoval: ratio = Math.min(maxDim / width, maxDim /
\* height), the smaller quotient being the one by the larger side;
\* width *= ratio; height *= ratio; canvas.width = width; canvas.height =
\* height. scaled(n) is the Number n / 8192 for an integer 0 <= n < 8192
\* (n * 2^59 units): scaling both operands of a division, or one of a
\* product, by a power of two scales the rounded result by it exactly.
\* truncated(p) is the integer part of 8192 * p for p < 1: what assigning
\* the Number to canvas.width (an unsigned long) keeps of it.
modnetSize(width, height) ==
    LET scaled(n) == <<0, 0, 0, 0, (n * 2048) % WideBase, (n * 2048) \div WideBase, 0>>
        truncated(p) == 2 * p[6] + p[5] \div 2048
        ratio == NumDiv(scaled(maxDim), scaled(IF width >= height THEN width ELSE height))
    IN IF width > maxDim \/ height > maxDim
         THEN [w |-> truncated(NumMul(scaled(width), ratio)),
               h |-> truncated(NumMul(scaled(height), ratio))]
         ELSE [w |-> width, h |-> height]

\* canvas.width = ...; canvas.height = ...; ctx.drawImage(...): the size of
\* the canvas the variant draws the image on; the output canvas of the
\* segmentation variants takes its size.
drawCanvas ==
    /\ zpc = "start"
    /\ canvas' = CASE algorithm = "ai"     -> resizeImageIfNeeded(natural.w, natural.h)
                   [] algorithm = "modnet" -> modnetSize(natural.w, natural.h)
                   [] OTHER                -> natural
    /\ zpc' = "done"
    /\ UNCHANGED <<algorithm, natural>>
    /\ UNCHANGED <<uiVars, iconVars, shapeVars, blurVars, runVars>>

\* A variant about to set up its canvas for an image of some naturalWidth
\* and naturalHeight.
InitSizeSpec ==
    /\ InitUI /\ InitIconIdle /\ InitShapeIdle /\ InitBlurIdle /\ InitRunIdle
    /\ mathExp = [a \in ExpArgs |-> 0]
    /\ zpc = "start"
    /\ algorithm \in Algorithms
    /\ natural \in [w : {1, 2, 161, 512, 513, 561, 644, 1024, 1025, 3000, 5000},
                    h : {1, 2, 161, 512, 513, 561, 644, 1024, 1025, 3000, 5000}]
    /\ canvas = [w |-> 0, h |-> 0]

SpecSize == InitSizeSpec /\ [][drawCanvas]_vars

\* --------------------------------------------------- gimpBackgroundRemoval

\* The decoded inputs of the gimp variant: opaque images, three colours on
\* the sizes with no interior, and 3x3 images of two colours in vertical
\* stripes. Black and the dark red are within the default colorTolerance of
\* each other, white is far.
GimpInputs ==
    { WithAlpha(image, 255) :
        image \in ImagesOf(FlatSizes, ShapePalette)
                    \cup { im \in ImagesOf({<<3, 3>>}, InkPalette) :
                              \A i \in 4..9 : im.px[i] = im.px[i - 3] } }

\* opts of gimpBackgroundRemoval: the defaults, and feathering turned off.
GimpOptions == [colorTolerance : {25}, featherRadius : {0, 2}, antiAlias : {TRUE}]

\* mask: 1 (TRUE) where colorDistance(pixelColor, backgroundColor) <=
\* colorTolerance; the distance is the square root of an integer, so the
\* comparison is that of the squares.
selectionMask(image, background, colorTolerance) ==
    [i \in 1..(image.w * image.h) |->
        getColorDistanceSq(image.px[i], background) <= colorTolerance * colorTolerance]

\* The feathering step of the gimp variant with the blur applied whatever the
\* radius, by the default kernel.
featherAlways(inverted, width, height, featherRadius) ==
    gaussianBlur(inverted, width, height, 2)

\* if (opts.featherRadius > 0) alphaMask = gaussianBlur(...).
feather(inverted, width, height, featherRadius) ==
    IF featherRadius > 0
      THEN gaussianBlur(inverted, width, height, featherRadius)
      ELSE inverted

\* Math.round(alphaMask[pixelIndex] * 255) stored in the byte array: the
\* product is rounded as a Number, Math.round takes it to the nearest integer,
\* a half upwards, and the store clamps at 255.
roundAlpha(v) ==
    LET p == NumMul(v, <<0, 0, 0, 0, 0, 0, 255>>)
        n == p[WideLen] + (IF p[WideLen - 1] >= WideBase \div 2 THEN 1 ELSE 0)
    IN IF n > 255 THEN 255 ELSE n

InitShapeGimp ==
    /\ variant = "gimp"
    /\ imageData \in GimpInputs
    /\ opts \in GimpOptions
    /\ maskData = <<>>
    /\ spc = "start"
    /\ bgColor = <<255, 255, 255>>
    /\ bgMask = <<>>
    /\ edges = <<>>
    /\ shaped = <<>>
    /\ alphaMask = <<>>
    /\ outputData = [px |-> <<>>, a |-> <<>>]

\* gimpBackgroundRemoval from getImageData to putImageData: the first corner
\* is the background colour, the selection mask is inverted and feathered,
\* RGB is copied and alpha is the rounded mask.
gimpBackgroundRemoval ==
    /\ spc = "start" /\ variant = "gimp"
    /\ bgColor' = PixelColor(imageData, 0, 0)
    /\ bgMask' = selectionMask(imageData, bgColor', opts.colorTolerance)
    /\ alphaMask' = feather([i \in 1..Len(bgMask') |->
                                 IF bgMask'[i] THEN WideZero(WideLen) ELSE WideOne],
                             imageData.w, imageData.h, opts.featherRadius)
    /\ outputData' = [px |-> imageData.px,
                      a  |-> [i \in 1..Len(alphaMask') |-> roundAlpha(alphaMask'[i])]]
    /\ edges' = <<>>
    /\ shaped' = <<>>
    /\ spc' = "done"
    /\ UNCHANGED <<variant, imageData, opts, maskData>>
    /\ UNCHANGED <<uiVars, iconVars, blurVars, sizeVars, runVars>>

NextShape ==
    \/ removeIconBackground
    \/ inkscapeBackgroundRemoval
    \/ gimpBackgroundRemoval

\* The gimp variant is run on engines whose Math.exp is correctly rounded,
\* or one unit in the last place off in the same direction for both
\* arguments.
InitShape ==
    \/ InitShapeIcon /\ mathExp = [a \in ExpArgs |-> 0]
    \/ InitShapeInkscape /\ mathExp = [a \in ExpArgs |-> 0]
    \/ InitShapeGimp /\ mathExp \in { [a \in ExpArgs |-> e] : e \in {-1, 0, 1} }

InitShapeSpec == InitUI /\ InitIconIdle /\ InitShape /\ InitBlurIdle /\ InitSizeIdle
                 /\ InitRunIdle

SpecShape == InitShapeSpec /\ [][NextShape]_vars

\* ----------------------------------- the mask loops of the ML variants

\* A mask value m is held as the integer n with m = n / MaskSteps.

\* result[0].mask.data for a canvas of two pixels: two neighbouring mask
\* values, or the two ends of the range.
MaskInputs ==
    { <<n, n + 1>> : n \in 0..(MaskSteps - 1) } \cup { <<0, MaskSteps>>, <<MaskSteps, 0>> }

\* Math.round(maskValue * 255): floor(255 * n / MaskSteps + 1/2).
roundMask(n) == (510 * n + MaskSteps) \div (2 * MaskSteps)

\* The ai and rembg loops: alpha = Math.round(mask.data[i] * 255).
plainAlpha(n) == roundMask(n)

\* Mutant: the boost and the attenuation are swapped.
modnetAlphaSwapped(n) ==
    LET alpha == roundMask(n)
    IN IF 10 * n > MaskSteps /\ 10 * n < 9 * MaskSteps
         THEN IF 2 * n > MaskSteps
                THEN (8 * alpha + 5) \div 10
                ELSE IF 12 * alpha >= 2550 THEN 255 ELSE (12 * alpha + 5) \div 10
         ELSE alpha

\* The modnet loop: alpha = Math.round(m * 255); for 0.1 < m < 0.9 it becomes
\* min(255, alpha * 1.2) when m > 0.5 and max(0, alpha * 0.8) otherwise. The
\* byte stored is the nearest integer (alpha * 1.2 and alpha * 0.8 are never
\* halfway between two integers).
modnetAlpha(n) ==
    LET alpha == roundMask(n)
    IN IF 10 * n > MaskSteps /\ 10 * n < 9 * MaskSteps
         THEN IF 2 * n > MaskSteps
                THEN IF 12 * alpha >= 2550 THEN 255 ELSE (12 * alpha + 5) \div 10
                ELSE (8 * alpha + 5) \div 10
         ELSE alpha

\* base^k as a magnitude, for base below 2^11.
RECURSIVE MagPow(_, _)
MagPow(base, k) ==
    IF k = 0 THEN <<1, 0, 0, 0>> ELSE MagMulByte(MagPow(base, k - 1), base)

\* a * base^k.
RECURSIVE MagTimesPow(_, _, _)
MagTimesPow(a, base, k) ==
    IF k = 0 THEN a ELSE MagMulByte(MagTimesPow(a, base, k - 1), base)

\* Math.round(Math.pow(m, 0.8) * 255): the k with k - 1/2 <= 255 * m^0.8 <
\* k + 1/2, that is ((2k - 1) / 510)^5 <= m^4 < ((2k + 1) / 510)^5.
roundPow08(n) ==
    LET X == MagTimesPow(MagPow(510, 5), n, 4)
    IN CHOOSE k \in 0..255 :
         /\ k = 0 \/ ~MagLess(X, MagTimesPow(MagPow(2 * k - 1, 5), MaskSteps, 4))
         /\ MagLess(X, MagTimesPow(MagPow(2 * k + 1, 5), MaskSteps, 4))

\* Mutant: the refined value is inverted.
inspyrenetAlphaInverted(n) ==
    IF 20 * n > MaskSteps /\ 20 * n < 19 * MaskSteps
      THEN 255 - roundPow08(n)
      ELSE IF 20 * n <= MaskSteps THEN 0 ELSE 255

\* The inspyrenet loop: Math.round(Math.pow(m, 0.8) * 255) for 0.05 < m <
\* 0.95, 0 for m <= 0.05, 255 otherwise.
inspyrenetAlpha(n) ==
    IF 20 * n > MaskSteps /\ 20 * n < 19 * MaskSteps
      THEN roundPow08(n)
      ELSE IF 20 * n <= MaskSteps THEN 0 ELSE 255

\* The mask loop of the ai variant: for (i = 0; i < mask.data.length; i++)
\* data[i * 4 + 3] = alpha, on the copy of the canvas.
aiMaskLoop ==
    /\ spc = "start" /\ variant = "ai"
    /\ shaped' = [i \in 1..Len(maskData) |-> plainAlpha(maskData[i])]
    /\ outputData' = [px |-> imageData.px, a |-> shaped']
    /\ spc' = "done"
    /\ UNCHANGED <<variant, imageData, opts, maskData, bgColor, bgMask, edges, alphaMask>>
    /\ UNCHANGED <<uiVars, iconVars, blurVars, sizeVars, runVars>>

\* The mask loop of the rembg variant.
rembgMaskLoop ==
    /\ spc = "start" /\ variant = "rembg"
    /\ shaped' = [i \in 1..Len(maskData) |-> plainAlpha(maskData[i])]
    /\ outputData' = [px |-> imageData.px, a |-> shaped']
    /\ spc' = "done"
    /\ UNCHANGED <<variant, imageData, opts, maskData, bgColor, bgMask, edges, alphaMask>>
    /\ UNCHANGED <<uiVars, iconVars, blurVars, sizeVars, runVars>>

\* The mask loop of the modnet variant.
modnetMaskLoop ==
    /\ spc = "start" /\ variant = "modnet"
    /\ shaped' = [i \in 1..Len(maskData) |-> modnetAlpha(maskData[i])]
    /\ outputData' = [px |-> imageData.px, a |-> shaped']
    /\ spc' = "done"
    /\ UNCHANGED <<variant, imageData, opts, maskData, bgColor, bgMask, edges, alphaMask>>
    /\ UNCHANGED <<uiVars, iconVars, blurVars, sizeVars, runVars>>

\* The mask loop of the inspyrenet variant.
inspyrenetMaskLoop ==
    /\ spc = "start" /\ variant = "inspyrenet"
    /\ shaped' = [i \in 1..Len(maskData) |-> inspyrenetAlpha(maskData[i])]
    /\ outputData' = [px |-> imageData.px, a |-> shaped']
    /\ spc' = "done"
    /\ UNCHANGED <<variant, imageData, opts, maskData, bgColor, bgMask, edges, alphaMask>>
    /\ UNCHANGED <<uiVars, iconVars, blurVars, sizeVars, runVars>>

NextMask ==
    \/ aiMaskLoop
    \/ rembgMaskLoop
    \/ modnetMaskLoop
    \/ inspyrenetMaskLoop

InitMaskSpec ==
    /\ InitUI
    /\ InitIconIdle
    /\ variant \in MLAlgorithms
    \* the canvas the mask is applied to: two opaque pixels
    /\ imageData = WithAlpha([w |-> 2, h |-> 1, px |-> << <<0, 0, 0>>, <<255, 255, 255>> >>], 255)
    /\ opts = [tolerance |-> 0]
    /\ maskData \in MaskInputs
    /\ spc = "start"
    /\ bgColor = <<255, 255, 255>>
    /\ bgMask = <<>>
    /\ edges = <<>>
    /\ shaped = <<>>
    /\ alphaMask = <<>>
    /\ outputData = [px |-> <<>>, a |-> <<>>]
    /\ InitNoBlur

SpecMask == InitMaskSpec /\ [][NextMask]_vars

\* ------------------------------- processImageWithAllAlgorithms, the pixels

\* Mutant: the variants work on the image's own pixel buffer, so what a
\* variant leaves in its data is what the next one is handed.
inputAfterShared(image, data) == [image EXCEPT !.px = data.px]

\* The image after a variant has run: drawImage only reads imageElement, and
\* the canvas and the ImageData a variant writes to are its own.
inputAfter(image, data) == image

\* The loop calls removeBackgroundWithAlgorithm(imageElement, algorithm): the
\* variant makes its canvas, draws the image and reads its pixels back. The
\* icon variant's options are passed, the others run on their defaults; a
\* segmentation variant gets a mask from the pipeline.
getImageData ==
    /\ spc = "idle" /\ runAt <= Len(algorithms)
    /\ variant' = algorithms[runAt]
    /\ imageData' = imageElement
    /\ opts' = CASE variant' = "icon" ->
                      [tolerance |-> 35, edgeThreshold |-> 10, smoothing |-> TRUE]
                 [] variant' = "gimp" ->
                      [colorTolerance |-> 25, featherRadius |-> 2, antiAlias |-> TRUE]
                 [] variant' = "inkscape" ->
                      [threshold |-> 128, simplification |-> 2, smoothing |-> TRUE]
                 [] OTHER -> [tolerance |-> 0]
    /\ maskData' = IF variant' \in MLAlgorithms
                     THEN [i \in 1..(imageElement.w * imageElement.h) |->
                              (37 * i) % (MaskSteps + 1)]
                     ELSE <<>>
    /\ spc' = "start"
    /\ bgColor' = <<255, 255, 255>>
    /\ bgMask' = <<>>
    /\ edges' = <<>>
    /\ shaped' = <<>>
    /\ alphaMask' = <<>>
    /\ outputData' = [px |-> <<>>, a |-> <<>>]
    /\ UNCHANGED runVars
    /\ UNCHANGED <<uiVars, iconVars, blurVars, sizeVars>>

\* The variant throws (no 2d context, an invalid segmentation result, no
\* blob): the loop's catch logs it and goes on.
variantThrows ==
    /\ spc = "start" /\ runAt <= Len(algorithms)
    /\ spc' = "idle"
    /\ runAt' = runAt + 1
    /\ UNCHANGED <<imageElement, blobs>>
    /\ UNCHANGED <<variant, imageData, opts, maskData, bgColor, bgMask, edges, shaped,
                   alphaMask, outputData>>
    /\ UNCHANGED <<uiVars, iconVars, blurVars, sizeVars>>

\* The variant resolves with the blob of its output canvas and
\* results.push(...) records it.
variantReturns ==
    /\ spc = "done" /\ runAt <= Len(algorithms)
    /\ blobs' = [blobs EXCEPT ![variant] = outputData]
    /\ imageElement' = inputAfter(imageElement, outputData)
    /\ spc' = "idle"
    /\ runAt' = runAt + 1
    /\ UNCHANGED <<variant, imageData, opts, maskData, bgColor, bgMask, edges, shaped,
                   alphaMask, outputData>>
    /\ UNCHANGED <<uiVars, iconVars, blurVars, sizeVars>>

NextRun ==
    \/ getImageData
    \/ variantThrows
    \/ variantReturns
    \/ removeIconBackground
    \/ gimpBackgroundRemoval
    \/ inkscapeBackgroundRemoval
    \/ aiMaskLoop
    \/ rembgMaskLoop
    \/ modnetMaskLoop
    \/ inspyrenetMaskLoop

\* The decoded inputs of a run: the 2x1 images of three colours, and the 3x3
\* images of two colours in vertical stripes (the median filter changes the
\* centre of those whose middle stripe differs from the outer two).
InitRunSpec ==
    /\ InitUI /\ InitIconIdle /\ InitShapeIdle /\ InitBlurIdle /\ InitSizeIdle
    /\ mathExp = [a \in ExpArgs |-> 0]
    /\ imageElement \in
         { WithAlpha(image, 255) :
             image \in ImagesOf({<<2, 1>>}, ShapePalette)
                         \cup { im \in ImagesOf({<<3, 3>>}, InkPalette) :
                                   \A i \in 4..9 : im.px[i] = im.px[i - 3] } }
    /\ runAt = 1
    /\ blobs = [a \in Algorithms |-> [px |-> <<>>, a |-> <<>>]]

SpecRun == InitRunSpec /\ [][NextRun]_vars

\* ------------------------------------------------------------------- Spec

NextUI ==
    \/ SelectImage
    \/ handleReset
    \/ handleProcessImage
    \/ ProxyFails
    \/ ProxyFetched
    \/ ImageSettles
    \/ AfterLoad
    \/ FetchOriginal
    \/ SvgConverted
    \/ AfterOrchestrator
    \/ StartVariant
    \/ StageSucceeds
    \/ StageThrows
    \/ SegmenterReturns
    \/ VariantSettled
    \/ OrchestratorReturns

Init == InitUI /\ InitIconIdle /\ InitShapeIdle /\ InitNoBlur

Next == NextUI

Spec == Init /\ [][Next]_vars

\* ----------------------------------------------------- orchestrator claims

Range(seq) == {seq[i] : i \in 1..Len(seq)}

Failed == {a \in Algorithms : vstate[a] = "rejected"}

NotFailed(a) == vstate[a] # "rejected"

\* C1: whatever subset of the seven variants throws, at whatever stage, when
\* the orchestrator returns every variant has been invoked, every variant that
\* did not throw has its entry in the returned list, and no variant that threw
\* has one; at no time does the list hold an entry for a variant that has not
\* completed.
C1_FailureIsolation ==
    /\ \A a \in Range(results) : vstate[a] = "resolved"
    /\ opc = "resolved" =>
         /\ invoked = Algorithms
         /\ \A a \in Algorithms : vstate[a] \in Settled
         /\ \A a \in Algorithms : vstate[a] = "resolved" => a \in Range(results)
         /\ \A a \in Failed : a \notin Range(results)

\* C1 witness: the orchestrator has returned after a variant in the middle of
\* the list threw, and a later variant's result is in the list.
C1_Witness ==
    /\ opc = "resolved"
    /\ vstate["rembg"] = "rejected"
    /\ vstate["icon"] = "rejected"
    /\ "inspyrenet" \in Range(results)
    /\ "gimp" \in Range(results)

\* C2: the returned list is the request order with the failed ids removed, and
\* its length is 7 minus the number of failures.
C2_RequestOrder ==
    opc = "resolved" =>
        /\ results = SelectSeq(algorithms, NotFailed)
        /\ Len(results) = Len(algorithms) - Cardinality(Failed)

\* C2 witness: exactly two of the seven threw, and the five others are returned
\* in request order.
C2_Witness ==
    /\ opc = "resolved"
    /\ Failed = {"ai", "inkscape"}
    /\ results = <<"icon", "rembg", "modnet", "gimp", "inspyrenet">>

\* C3: the orchestrator's promise never rejects, and when every variant has
\* failed it resolves with the empty list.
C3_AllFail ==
    /\ opc # "rejected"
    /\ (Failed = Algorithms /\ idx > Len(algorithms)) =>
           /\ results = <<>>
           /\ opc \in {"loop", "resolved"}

\* C3 witness: all seven failed and the orchestrator resolved with no result.
C3_Witness ==
    /\ Failed = Algorithms
    /\ opc = "resolved"
    /\ results = <<>>

\* C4: the outcome handleProcessImage reports depends on the number of
\* successful variants: the step that ends a run of the orchestrator toasts an
\* error when no variant succeeded and a success naming the count otherwise.
C4_ZeroIsFailure ==
    [][ (hpc = "run" /\ hpc' = "idle") =>
          IF Len(results) = 0
            THEN toast'.title = "Error"
            ELSE toast' = Toast("Success!", Len(results)) ]_vars

\* C5: at most one variant is in flight at any time, and a variant is started
\* only when every variant before it in the list has completed or failed.
C5_OneAtATime ==
    /\ Cardinality(InFlight) <= 1
    /\ \A k \in 1..(Len(algorithms) - 1) :
         vstate[algorithms[k + 1]] # "notStarted" => vstate[algorithms[k]] \in Settled

\* C5 witness: a variant after the first is suspended on its segmentation call
\* while all before it are settled.
C5_Witness ==
    /\ vstate["modnet"] = "segment"
    /\ vstate["rembg"] = "rejected"
    /\ vstate["ai"] = "resolved"

\* C6: when loadImageFromUrl rejects, no variant is invoked and the orchestrator
\* is never entered, the run ends with the error toast, and the step that ends
\* it leaves processedResults as it was.
C6_DecodeFailureAborts ==
    /\ [](loadResult = "rejected" =>
            /\ invoked = {}
            /\ opc = "idle"
            /\ \A a \in Algorithms : vstate[a] = "notStarted"
            /\ hpc \in {"load", "idle"}
            /\ hpc = "idle" => (toast.title = "Error" /\ ~isProcessing /\ progress = 0))
    /\ [][ (hpc = "load" /\ hpc' = "idle") =>
             processedResults' = processedResults ]_vars

\* C6 witness: a run whose load was rejected has ended, with the results of an
\* earlier run still in processedResults.
C6_Witness ==
    /\ loadResult = "rejected"
    /\ hpc = "idle"
    /\ toast.title = "Error"
    /\ Len(processedResults) >= 2

\* A segmentation result as the interface requires it: an array whose first
\* element carries a mask of one value per pixel.
WellFormedSegmentation(r) ==
    /\ ~r.isNull /\ r.isArray /\ r.length > 0 /\ r.hasMask
    /\ r.dataLen = CanvasPixels

\* C7: an ML-backed variant that was handed a segmentation result that is
\* missing, empty, without a mask, with an empty mask or with a mask of the
\* wrong length fails: a variant that produced its artifact had a well-formed
\* result.
C7_MalformedMaskFails ==
    \A a \in MLAlgorithms :
        (opc = "await" /\ idx <= Len(algorithms) /\ algorithms[idx] = a
           /\ vstate[a] \in {"encode", "resolved"})
        => WellFormedSegmentation(segResult)

\* ------------------------------------------------------- flood fill claims

\* The indices (1-based, row-major) a filled[] or mask[] array marks.
Marked(f) == {i \in 1..Len(f) : f[i]}

\* Pixels i and j of the image are 4-neighbours.
Adjacent4(image, i, j) ==
    LET xi == (i - 1) % image.w
        yi == (i - 1) \div image.w
        xj == (j - 1) % image.w
        yj == (j - 1) \div image.w
    IN \/ (xi = xj /\ (yi = yj + 1 \/ yj = yi + 1))
       \/ (yi = yj /\ (xi = xj + 1 \/ xj = xi + 1))

\* Pixel i's own colour is at Euclidean RGB distance at most tol from target.
NearTarget(image, i, target, tol) ==
    LET c == image.px[i]
        d2 == (c[1] - target[1]) * (c[1] - target[1])
            + (c[2] - target[2]) * (c[2] - target[2])
            + (c[3] - target[3]) * (c[3] - target[3])
    IN tol >= 0 /\ d2 <= tol * tol

RECURSIVE Closure4(_, _, _, _)
Closure4(image, target, tol, S) ==
    LET more == {j \in 1..(image.w * image.h) :
                   /\ j \notin S
                   /\ NearTarget(image, j, target, tol)
                   /\ \E i \in S : Adjacent4(image, i, j)}
    IN IF more = {} THEN S ELSE Closure4(image, target, tol, S \cup more)

\* The pixels connected to the seed <<x, y>> by a 4-neighbour path of pixels
\* near the target; empty when the seed is outside the image or not near it.
ConnectedRegion(image, seed, target, tol) ==
    LET inside == /\ seed[1] >= 0 /\ seed[1] < image.w
                  /\ seed[2] >= 0 /\ seed[2] < image.h
        s == seed[2] * image.w + seed[1] + 1
    IN IF inside /\ NearTarget(image, s, target, tol)
         THEN Closure4(image, target, tol, {s})
         ELSE {}

\* Seeds: every pixel of the image, and one seed outside it on each side.
Seeds(image) ==
    ((0..(image.w - 1)) \X (0..(image.h - 1)))
      \cup { <<-1, 0>>, <<image.w, 0>>, <<0, -1>>, <<0, image.h>> }

\* The corner whose fill is running or has last returned.
FillCorner == IF ipc = "fill" THEN corner ELSE corner - 1

\* A floodFill call has run its loop to the end and filled holds its result.
FillEnded == (ipc = "fill" /\ stack = <<>>) \/ (ipc \in {"corner", "masked"} /\ corner > 1)

\* C8: floodFill marks exactly the pixels connected to the seed by a
\* 4-neighbour path of pixels within tolerance of the target (none when the
\* seed is not), for every seed and target colour and for the corner fills the
\* icon variant runs; and the icon variant's mask is the union of its four
\* corner fills.
C8_FillIsConnectedRegion ==
    /\ ipc = "masked" =>
         \A seed \in Seeds(img), target \in Palette :
             Marked(floodFill(img, seed[1], seed[2], target, tolerance))
               = ConnectedRegion(img, seed, target, tolerance)
    /\ FillEnded =>
         Marked(filled)
           = ConnectedRegion(img, corners(img)[FillCorner], backgroundColor, tolerance)
    /\ ipc = "masked" =>
         Marked(mask)
           = UNION { ConnectedRegion(img, corners(img)[c], backgroundColor, tolerance) :
                     c \in 1..4 }

\* C8 witness: the mask is complete, one corner's fill is empty because the
\* corner is out of tolerance, another corner's fill stopped at a pixel out of
\* tolerance, and a pixel of the background colour that no corner reaches is
\* left unmarked.
C8_Witness ==
    /\ ipc = "masked"
    /\ ConnectedRegion(img, corners(img)[1], backgroundColor, tolerance) # {}
    /\ ConnectedRegion(img, corners(img)[2], backgroundColor, tolerance) = {}
    /\ \E i \in 1..Len(mask) : ~mask[i] /\ img.px[i] = backgroundColor
    /\ Cardinality(Marked(mask)) >= 2

\* C9: for the same image, seed and target, a larger tolerance never fills
\* less: the fill of the state's tolerance is contained in the fill of every
\* tolerance above it and contains the fill of every tolerance below it.
C9_MonotoneInTolerance ==
    /\ ipc = "masked" =>
         \A seed \in Seeds(img), target \in Palette :
             LET base == Marked(floodFill(img, seed[1], seed[2], target, tolerance))
             IN \A t \in Tolerances :
                    t > tolerance =>
                        base \subseteq Marked(floodFill(img, seed[1], seed[2], target, t))
    /\ (ipc = "fill" /\ stack = <<>>) =>
         \A t \in Tolerances :
             LET other == Marked(floodFill(img, corners(img)[corner][1],
                                           corners(img)[corner][2], backgroundColor, t))
             IN /\ t >= tolerance => Marked(filled) \subseteq other
                /\ t <= tolerance => other \subseteq Marked(filled)

\* C9 witness: a corner fill has ended that is non-empty, and a larger
\* tolerance fills strictly more from the same seed.
C9_Witness ==
    /\ ipc = "fill" /\ stack = <<>>
    /\ Marked(filled) # {}
    /\ \E t \in Tolerances :
         /\ t > tolerance
         /\ Marked(filled) # Marked(floodFill(img, corners(img)[corner][1],
                                             corners(img)[corner][2], backgroundColor, t))

\* The work left in a floodFill call: four pushes for every pixel not yet
\* filled, and the entries on the stack.
FillMeasure(f, st) == 4 * Cardinality({i \in 1..Len(f) : ~f[i]}) + Len(st)

\* C10: floodFill terminates. Every iteration of its loop strictly decreases
\* the work left, which is never negative, so a call on an image of n pixels
\* makes at most 4n + 1 iterations; a filled pixel stays filled and is never
\* filled again; the stack grows only in an iteration that fills a new pixel,
\* by that pixel's four neighbours less the entry popped.
C10_FillTerminates ==
    [][ (ipc = "fill" /\ ipc' = "fill") =>
          /\ FillMeasure(filled', stack') < FillMeasure(filled, stack)
          /\ FillMeasure(filled', stack') >= 0
          /\ FillMeasure(filled, stack) <= 4 * Len(filled) + 1
          /\ Marked(filled) \subseteq Marked(filled')
          /\ Cardinality(Marked(filled')) <= Cardinality(Marked(filled)) + 1
          /\ Len(stack') > Len(stack) =>
               /\ Cardinality(Marked(filled')) = Cardinality(Marked(filled)) + 1
               /\ Len(stack') = Len(stack) + 3 ]_vars

\* C10 witness: a fill is about to pop an entry for a pixel that is already
\* filled, with more entries below it on the stack.
C10_Witness ==
    /\ ipc = "fill"
    /\ Len(stack) >= 2
    /\ LET top == stack[Len(stack)] IN
         /\ top[1] >= 0 /\ top[1] < img.w /\ top[2] >= 0 /\ top[2] < img.h
         /\ filled[top[2] * img.w + top[1] + 1]
    /\ Cardinality(Marked(filled)) = MaxPixels

\* Every pixel of the image has the same RGB colour.
Uniform(image) == \A i \in 1..(image.w * image.h) : image.px[i] = image.px[1]

\* C11: on an image whose pixels all have one colour, the sampled background
\* colour is that colour and the union of the four corner fills marks every
\* pixel, for every size and every tolerance >= 0.
C11_UniformFullyMasked ==
    (ipc = "masked" /\ Uniform(img)) =>
        /\ backgroundColor = img.px[1]
        /\ Len(mask) = img.w * img.h
        /\ \A i \in 1..Len(mask) : mask[i]

\* C11 witness: the mask of a uniform image with two rows and two columns is
\* complete, at tolerance 0.
C11_Witness ==
    /\ ipc = "masked"
    /\ Uniform(img)
    /\ img.w >= 2 /\ img.h >= 2
    /\ tolerance = 0
    /\ \A i \in 1..Len(mask) : mask[i]

\* C12: a floodFill call with tolerance 0 fills only pixels whose colour is
\* the target colour exactly; a call with a tolerance of at least 441.7 (442,
\* the first whole tolerance above it) whose start is inside the image fills
\* every pixel, whatever the colours.
C12_ToleranceExtremes ==
    [][ (ipc = "call" /\ ipc' = "returned") =>
          /\ tolerance = 0 =>
                \A i \in 1..Len(filled') : filled'[i] => img.px[i] = backgroundColor
          /\ ( /\ tolerance >= 442
               /\ stack[1][1] >= 0 /\ stack[1][1] < img.w
               /\ stack[1][2] >= 0 /\ stack[1][2] < img.h ) =>
                \A i \in 1..Len(filled') : filled'[i] ]_vars

\* C12 witness: a call with tolerance 442 and a white target has returned
\* with every pixel filled on an image that holds black and white pixels.
C12_Witness ==
    /\ ipc = "returned"
    /\ tolerance = 442
    /\ backgroundColor = <<255, 255, 255>>
    /\ \E i, j \in 1..Len(filled) :
          img.px[i] = <<0, 0, 0>> /\ img.px[j] = <<255, 255, 255>>
    /\ \A i \in 1..Len(filled) : filled[i]

\* -------------------------------------------------- pixel stage claims

\* The variant v has run its pixel stage to the end.
Ran(v) == spc = "done" /\ variant = v

\* The colours at the 8 boundary positions, in the fixed order: the corners
\* top-left, top-right, bottom-left, bottom-right, then the midpoints of the
\* top, bottom, left and right edges (1-based row-major indices).
BoundaryColours(image) ==
    LET w == image.w
        h == image.h
    IN << image.px[1], image.px[w], image.px[(h - 1) * w + 1], image.px[h * w],
          image.px[(w \div 2) + 1], image.px[(h - 1) * w + (w \div 2) + 1],
          image.px[(h \div 2) * w + 1], image.px[(h \div 2) * w + w] >>

\* How many of the 8 boundary samples have colour c, and the first that has.
SampleCount(image, c) == Cardinality({k \in 1..8 : BoundaryColours(image)[k] = c})

FirstSample(image, c) ==
    CHOOSE k \in 1..8 : /\ BoundaryColours(image)[k] = c
                        /\ \A j \in 1..(k - 1) : BoundaryColours(image)[j] # c

\* C13: the sampled background colour is the colour of at least one of the 8
\* boundary samples; in particular it is white only when a sample is white.
C13_SampledColourIsSeen ==
    Ran("icon") => \E k \in 1..8 : bgColor = BoundaryColours(imageData)[k]

\* C13 witness: a 3x3 image none of whose boundary pixels is white, with a
\* white centre, has been sampled.
C13_Witness ==
    /\ Ran("icon")
    /\ imageData.w = 3 /\ imageData.h = 3
    /\ imageData.px[5] = <<255, 255, 255>>
    /\ \A k \in 1..8 : BoundaryColours(imageData)[k] # <<255, 255, 255>>
    /\ bgColor # <<255, 255, 255>>

\* C14: the sampled background colour has the highest count among the 8
\* samples, and among the colours with that count it is the one whose first
\* sample comes first in the fixed order.
C14_MostCommonFirstSeen ==
    Ran("icon") =>
        LET best == SampleCount(imageData, bgColor)
            from == FirstSample(imageData, bgColor)
        IN \A c \in {BoundaryColours(imageData)[k] : k \in 1..8} :
               \/ SampleCount(imageData, c) < best
               \/ /\ SampleCount(imageData, c) = best
                  /\ from <= FirstSample(imageData, c)

\* C14 witness: two colours share the highest count, 3 of 8, and the one
\* returned is not the colour of the last sample that has that count.
C14_Witness ==
    /\ Ran("icon")
    /\ imageData.w = 3 /\ imageData.h = 3
    /\ SampleCount(imageData, bgColor) = 3
    /\ \E k \in 2..8 :
          /\ BoundaryColours(imageData)[k] # bgColor
          /\ SampleCount(imageData, BoundaryColours(imageData)[k]) = 3
    /\ BoundaryColours(imageData)[1] # bgColor

\* C15: on an image whose pixels all have one colour both edge detectors
\* report no edge anywhere: the icon detectEdges is false at every index and
\* the inkscape detectEdges has magnitude 0 at every index, for every size.
C15_UniformHasNoEdges ==
    /\ (Ran("icon") /\ Uniform(imageData)) =>
          \A i \in 1..Len(edges) : ~edges[i]
    /\ (Ran("inkscape") /\ Uniform(imageData)) =>
          \A i \in 1..Len(edges) : NoEdge(edges[i])

\* The byte k is the integer nearest to (d / tol) * 255, d the square root of
\* d2: |k * tol - 255 * d| <= tol / 2.
NearestToRamp(k, d2, tol) ==
    /\ k \in 0..255
    /\ (2 * k - 1) * tol <= 0 \/
         ((2 * k - 1) * tol) * ((2 * k - 1) * tol) <= 4 * 255 * 255 * d2
    /\ 4 * 255 * 255 * d2 <= ((2 * k + 1) * tol) * ((2 * k + 1) * tol)

\* The alpha the icon variant gives pixel i before smoothing, rest being the
\* alpha of a pixel that is neither transparent nor on the ramp.
IconAlphaIs(i, rest) ==
    LET d2 == getColorDistanceSq(imageData.px[i], bgColor)
    IN IF bgMask[i] /\ ~edges[i]
         THEN shaped[i] = 0
         ELSE IF opts.tolerance > 0 /\ d2 < opts.tolerance * opts.tolerance
           THEN NearestToRamp(shaped[i], d2, opts.tolerance)
           ELSE shaped[i] = rest

\* C16 as claimed: before smoothing a pixel of the mask that is not an edge
\* has alpha 0, and every other pixel has alpha 255 unless its distance d to
\* the background colour is below tolerance, when it has (d / tolerance) * 255
\* (as a byte); for every input, whatever its own alpha.
C16_OpaqueOutsideMask ==
    Ran("icon") => \A i \in 1..Len(shaped) : IconAlphaIs(i, 255)

\* C16 as amended: the same, with the input's own alpha byte in place of 255.
C16_KeepsInputAlpha ==
    Ran("icon") => \A i \in 1..Len(shaped) : IconAlphaIs(i, imageData.a[i])

\* C16 witness: on a half-transparent input one pixel was made transparent
\* and another, outside the mask and far from the background colour, kept
\* alpha 128.
C16_Witness ==
    /\ Ran("icon")
    /\ \E i, j \in 1..Len(shaped) :
          /\ bgMask[i] /\ shaped[i] = 0
          /\ ~bgMask[j] /\ imageData.a[j] = 128 /\ shaped[j] = 128

\* ---------------------------------------------------- mask loop claims

\* Where a mask value lies with respect to the clamps of the refined mapping:
\* at most 0.05, at least 0.95, or between.
ClampRegion(n) ==
    IF 20 * n <= MaskSteps THEN "low"
    ELSE IF 20 * n >= 19 * MaskSteps THEN "high" ELSE "between"

\* C17: the alpha of the probability-mask mappings does not decrease when the
\* mask value grows: everywhere for the plain mapping of the ai and rembg
\* variants, and within each side of the clamps at 0.05 and 0.95 for the
\* refined mapping of the inspyrenet variant; both map 0 to 0 and 1 to 255.
C17_MaskAlphaMonotone ==
    (spc = "done" /\ variant \in {"ai", "rembg", "inspyrenet"}) =>
        /\ \A i, j \in 1..Len(maskData) :
              ( /\ maskData[i] <= maskData[j]
                /\ variant = "inspyrenet" => ClampRegion(maskData[i]) = ClampRegion(maskData[j]) )
              => shaped[i] <= shaped[j]
        /\ \A i \in 1..Len(maskData) :
              /\ maskData[i] = 0 => shaped[i] = 0
              /\ maskData[i] = MaskSteps => shaped[i] = 255
              /\ shaped[i] \in 0..255

\* C17 witness: the inspyrenet loop has mapped two neighbouring mask values
\* between the clamps to different alphas, the first above the plain
\* rounding of its mask value.
C17_Witness ==
    /\ Ran("inspyrenet")
    /\ ClampRegion(maskData[1]) = "between" /\ ClampRegion(maskData[2]) = "between"
    /\ maskData[1] < maskData[2]
    /\ shaped[1] < shaped[2]
    /\ shaped[1] > (510 * maskData[1] + MaskSteps) \div (2 * MaskSteps)

\* The byte k is the integer nearest to num * a / 10.
NearestToTenths(k, num, a) == 10 * k - num * a <= 5 /\ num * a - 10 * k <= 5

\* C18: in the modnet variant, with a = round(m * 255): for 0.5 < m < 0.9 the
\* stored alpha is min(255, 1.2 * a) (as a byte) and not below a; for
\* 0.1 < m <= 0.5 it is 0.8 * a (as a byte) and not above a; for m <= 0.1 or
\* m >= 0.9 it is a; it is always an integer in 0..255.
C18_TrimapAlpha ==
    Ran("modnet") =>
        \A i \in 1..Len(maskData) :
            LET n == maskData[i]
                a == (510 * n + MaskSteps) \div (2 * MaskSteps)
            IN /\ shaped[i] \in 0..255
               /\ (2 * n > MaskSteps /\ 10 * n < 9 * MaskSteps) =>
                     /\ IF 12 * a >= 2550 THEN shaped[i] = 255
                        ELSE NearestToTenths(shaped[i], 12, a)
                     /\ shaped[i] >= a
               /\ (10 * n > MaskSteps /\ 2 * n <= MaskSteps) =>
                     /\ NearestToTenths(shaped[i], 8, a)
                     /\ shaped[i] <= a
               /\ (10 * n <= MaskSteps \/ 10 * n >= 9 * MaskSteps) => shaped[i] = a

\* C18 witness: the modnet loop has attenuated the first of two neighbouring
\* mask values and boosted the second.
C18_Witness ==
    /\ Ran("modnet")
    /\ maskData[1] < maskData[2]
    /\ shaped[1] < (510 * maskData[1] + MaskSteps) \div (2 * MaskSteps)
    /\ shaped[2] > (510 * maskData[2] + MaskSteps) \div (2 * MaskSteps)
    /\ shaped[2] < 255

\* C19: in the inkscape variant a pixel whose colour distance to the averaged
\* corner colour exceeds the threshold, or whose normalised edge magnitude
\* exceeds 0.3, gets alpha min(255, colorDiff + edgeStrength * 128) and every
\* other pixel gets alpha 0, on every input; where the edge map is all zero
\* the edge term contributes nothing and the alpha is min(255, colorDiff).
C19_EdgeWeightedAlpha ==
    Ran("inkscape") =>
        \A i \in 1..Len(shaped) :
            LET d2 == getColorDistanceSq(outputData.px[i], bgColor)
                s  == IF maxEdgeIsZero(edges) THEN 0 ELSE edgeStrength(edges, i)
            IN shaped[i] =
                 IF d2 > opts.threshold * opts.threshold \/ s = 1
                   THEN IF roundSqrt(d2) + s * 128 > 255 THEN 255
                        ELSE roundSqrt(d2) + s * 128
                   ELSE 0

\* C20: feathering is the identity when it is disabled. With smoothing =
\* false the output alpha of the icon variant is the alpha the shaping step
\* produced, at every pixel; with featherRadius = 0 the alpha of the gimp
\* variant is the binary mask: 0 at the pixels within colorTolerance of the
\* background colour and 255 at all others.
C20_FeatheringOffIsIdentity ==
    /\ (Ran("icon") /\ ~opts.smoothing) => outputData.a = shaped
    /\ (Ran("gimp") /\ opts.featherRadius = 0) =>
          \A i \in 1..(imageData.w * imageData.h) :
              outputData.a[i] =
                  IF getColorDistanceSq(imageData.px[i], bgColor)
                        <= opts.colorTolerance * opts.colorTolerance
                    THEN 0 ELSE 255

\* The gimp variant has run with featherRadius = 0 on an image where a pixel
\* that differs from the background colour but is within the tolerance got 0
\* and another pixel got 255.
C20_Witness ==
    /\ Ran("gimp") /\ opts.featherRadius = 0
    /\ \E i, j \in 1..Len(outputData.a) :
          /\ outputData.a[i] = 0 /\ imageData.px[i] # bgColor
          /\ outputData.a[j] = 255

\* The icon half of C20 happens: the icon variant has run with smoothing =
\* false on an image whose shaped alpha is not constant around the interior
\* pixel.
C20_IconCase ==
    /\ Ran("icon") /\ ~opts.smoothing
    /\ imageData.w = 3 /\ imageData.h = 3
    /\ shaped[5] # shaped[2]

\* ------------------------------------------------------ smoothing claims

\* C21: with smoothing enabled in the icon variant, the final alpha of every
\* interior pixel is round((c + N + S + E + W) / 5) of the alphas before
\* smoothing of the pixel and of its four neighbours, every pixel of the first
\* or last row or column keeps its alpha from before smoothing, and RGB is
\* unchanged. (The sum is an integer, so the mean is never halfway: the
\* rounded value k is the one with |5k - sum| <= 2.)
C21_BoxAverageOfUnsmoothed ==
    (Ran("icon") /\ opts.smoothing) =>
        /\ outputData.px = imageData.px
        /\ \A i \in 1..(imageData.w * imageData.h) :
              IF Interior(imageData, i)
                THEN LET sum == shaped[i] + shaped[i - imageData.w] + shaped[i + imageData.w]
                                + shaped[i - 1] + shaped[i + 1]
                     IN /\ 5 * outputData.a[i] - sum <= 2
                        /\ sum - 5 * outputData.a[i] <= 2
                ELSE outputData.a[i] = shaped[i]

\* Smoothing ran on an image with two neighbouring interior pixels and changed
\* the alpha of both, so the second one's neighbour had a smoothed value to
\* offer.
C21_Witness ==
    /\ Ran("icon") /\ opts.smoothing
    /\ imageData.w = 4 /\ imageData.h = 3
    /\ outputData.a[6] # shaped[6]
    /\ outputData.a[7] # shaped[7]

\* C22 (as stated): after gaussianBlur the kernel has 2 * ceil(radius) + 1
\* taps that sum to 1; on a constant mask of value v the result equals v at
\* every pixel at least ceil(radius) away from all four borders and is
\* strictly less than v (for v > 0) at the pixels nearer a border; and no
\* result exceeds the largest input value.
BlurDone == bpc = "done"

BlurConstant == \A i \in 1..Len(blurArgs.data) : blurArgs.data[i] = blurArgs.data[1]

BlurInner(i) ==
    LET x == (i - 1) % blurArgs.width
        y == (i - 1) \div blurArgs.width
    IN /\ x >= blurArgs.radius /\ x <= blurArgs.width - 1 - blurArgs.radius
       /\ y >= blurArgs.radius /\ y <= blurArgs.height - 1 - blurArgs.radius

BlurMaxInput ==
    IF \E i \in 1..Len(blurArgs.data) : blurArgs.data[i] = WideOne
      THEN WideOne ELSE WideZero(WideLen)

C22_ExactOnConstantMask ==
    BlurDone =>
        /\ Len(kernel) = 2 * blurArgs.radius + 1
        /\ NumSum(kernel, 1, WideZero(WideLen)) = WideOne
        /\ BlurConstant =>
              \A i \in 1..Len(result) :
                  IF BlurInner(i)
                    THEN result[i] = blurArgs.data[1]
                    ELSE blurArgs.data[1] # WideZero(WideLen)
                            => WideLess(result[i], blurArgs.data[1])
        /\ \A i \in 1..Len(result) : ~WideLess(BlurMaxInput, result[i])

\* Two units in the last place of 1: 2^-51, in units of 2^-72.
BlurRounding == <<0, 512, 0, 0, 0, 0, 0>>

BlurNear(a, b) ==
    /\ ~WideLess(WideAdd(b, BlurRounding), a)
    /\ ~WideLess(WideAdd(a, BlurRounding), b)

\* C22 (amended): the same, where "sums to 1", "equals v" and "does not
\* exceed the largest input" hold up to the rounding of the Number
\* arithmetic: within 2^-51 for masks of zeros and ones and radius 1 or 2.
C22_ConstantMaskUpToRounding ==
    BlurDone =>
        /\ Len(kernel) = 2 * blurArgs.radius + 1
        /\ BlurNear(NumSum(kernel, 1, WideZero(WideLen)), WideOne)
        /\ BlurConstant =>
              \A i \in 1..Len(result) :
                  IF BlurInner(i)
                    THEN BlurNear(result[i], blurArgs.data[1])
                    ELSE blurArgs.data[1] # WideZero(WideLen)
                            => WideLess(WideAdd(result[i], BlurRounding), blurArgs.data[1])
        /\ \A i \in 1..Len(result) :
              ~WideLess(WideAdd(BlurMaxInput, BlurRounding), result[i])

\* A radius-2 blur of the constant 5x5 mask of ones has run: its centre is
\* not exactly 1 and its corner is below 1.
C22_Witness ==
    /\ BlurDone /\ blurArgs.radius = 2 /\ blurArgs.width = 5 /\ blurArgs.height = 5
    /\ BlurConstant /\ blurArgs.data[1] = WideOne
    /\ result[13] # WideOne
    /\ WideLess(result[1], WideOne)

\* C23: in the icon variant a pixel is flagged as an edge iff it is interior
\* and its Sobel gradient magnitude on the red channel exceeds
\* opts.edgeThreshold.
GradientSq(image, i) ==
    LET x == (i - 1) % image.w
        y == (i - 1) \div image.w
        gx == - Red(image, x - 1, y - 1) + Red(image, x + 1, y - 1)
              - 2 * Red(image, x - 1, y) + 2 * Red(image, x + 1, y)
              - Red(image, x - 1, y + 1) + Red(image, x + 1, y + 1)
        gy == - Red(image, x - 1, y - 1) - 2 * Red(image, x, y - 1)
              - Red(image, x + 1, y - 1) + Red(image, x - 1, y + 1)
              + 2 * Red(image, x, y + 1) + Red(image, x + 1, y + 1)
    IN gx * gx + gy * gy

C23_EdgeThresholdIsCutoff ==
    Ran("icon") =>
        \A i \in 1..Len(edges) :
            edges[i] <=> /\ Interior(imageData, i)
                         /\ GradientSq(imageData, i) > opts.edgeThreshold * opts.edgeThreshold

\* C24 (as stated): only the modnet variant gives its canvas a size other
\* than the image's.
Drawn == zpc = "done"

C24_OnlyModnetDownsamples ==
    (Drawn /\ algorithm # "modnet") => canvas = natural

\* C24 (amended): two variants downsample. modnet, when a side exceeds 512:
\* the longer side becomes 511 or 512 and the other its share of 512, or one
\* less. ai, when a side exceeds 1024: the longer side becomes 1024 and the
\* other its share of 1024, rounded. Within their maximum both keep the
\* image's size, as every other variant does for every size.
Longer(size) == IF size.w >= size.h THEN size.w ELSE size.h

Shorter(size) == IF size.w >= size.h THEN size.h ELSE size.w

C24_ModnetAndAiDownsample ==
    Drawn =>
        CASE algorithm = "modnet" /\ Longer(natural) > 512 ->
                 /\ canvas # natural
                 /\ Longer(canvas) \in {511, 512}
                 /\ Shorter(canvas) \in { (Shorter(natural) * 512) \div Longer(natural) - d :
                                            d \in {0, 1} }
                 /\ (natural.w >= natural.h) => canvas.w >= canvas.h
          [] algorithm = "ai" /\ Longer(natural) > 1024 ->
                 /\ canvas # natural
                 /\ Longer(canvas) = 1024
                 /\ 2 * Longer(natural) * Shorter(canvas) - 2 * Shorter(natural) * 1024
                        \in (1 - Longer(natural))..Longer(natural)
                 /\ (natural.w > natural.h) => canvas.w >= canvas.h
          [] OTHER -> canvas = natural

\* The ai variant has drawn a 3000x1025 image on a 1024x350 canvas.
C24_Witness ==
    /\ Drawn /\ algorithm = "ai"
    /\ natural = [w |-> 3000, h |-> 1025]
    /\ canvas = [w |-> 1024, h |-> 350]

\* C30: the canvas of the ai and modnet variants has both sides at least 1
\* and at most the variant's maximum (1024, 512).
C30_CanvasWithinBounds ==
    (Drawn /\ algorithm \in {"ai", "modnet"}) =>
        LET most == IF algorithm = "ai" THEN 1024 ELSE 512
        IN /\ canvas.w >= 1 /\ canvas.w <= most
           /\ canvas.h >= 1 /\ canvas.h <= most

\* C28: the gimp variant's background colour is a most common colour among
\* the four corner pixels, and the pixels marked as background are exactly
\* those whose RGB distance to it is at most colorTolerance.
CornerColours(image) ==
    [c \in 1..4 |-> PixelColor(image, corners(image)[c][1], corners(image)[c][2])]

CornerCount(image, colour) ==
    Cardinality({c \in 1..4 : CornerColours(image)[c] = colour})

C28_MostCommonCornerColour ==
    Ran("gimp") =>
        /\ \A c \in 1..4 :
              CornerCount(imageData, bgColor) >= CornerCount(imageData, CornerColours(imageData)[c])
        /\ \A i \in 1..Len(bgMask) :
              bgMask[i] <=> getColorDistanceSq(imageData.px[i], bgColor)
                              <= opts.colorTolerance * opts.colorTolerance

\* C29: once handleReset has run while a processing run is in flight (the
\* run is suspended and no image is selected, which only handleReset brings
\* about), no step writes results into processedResults before a new run
\* starts; and whenever a run has ended, isProcessing is false and progress
\* is 0.
C29_ResetDiscardsRunInFlight ==
    [][ /\ (hpc # "idle" /\ ~selectedImageUrl) => processedResults' = <<>>
        /\ hpc' = "idle" => (~isProcessing' /\ progress' = 0) ]_vars

\* C27: loadImageFromUrl goes through the proxies in order, one at a time;
\* it starts the direct load only after the third proxy attempt has failed;
\* and its promise rejects only when the direct load fails (a failed proxy
\* attempt, whatever failed in it, leads to the next attempt).
C27_ProxiesThenDirect ==
    [][ /\ (hpc = "load" /\ hpc' = "load" /\ proxy' # proxy) => proxy' = proxy + 1
        /\ (lstage # "direct" /\ lstage' = "direct") => (proxy = 3 /\ proxy' = 4)
        /\ (loadResult = "pending" /\ loadResult' = "rejected") => lstage = "direct" ]_vars

\* C25: within a run no variant changes the image the variants are handed,
\* every variant starts from pixels equal to that image, and so the image a
\* variant works from is the same whatever ran or failed before it.
C25_VariantsIndependent ==
    /\ [][imageElement' = imageElement]_vars
    /\ [][spc' = "start" => imageData' = imageElement']_vars

\* The inkscape variant has filtered its own pixels and resolved, and the
\* inspyrenet variant after it has produced the image's pixels unfiltered.
C25_Witness ==
    /\ Ran("inspyrenet") /\ runAt = 7
    /\ blobs["inkscape"].px # <<>>
    /\ blobs["inkscape"].px # imageElement.px
    /\ outputData.px = imageElement.px

\* C26: a variant other than modnet changes only the alpha channel: the RGB
\* bytes of its output are those of the decoded input, pixel for pixel.
C26_RgbUnchanged ==
    (spc = "done" /\ variant \in {"icon", "gimp", "inkscape", "rembg", "inspyrenet", "ai"}
                  /\ imageElement.px # <<>>)
        => outputData.px = imageElement.px

====
